---- MODULE Spec2Model ----
(***************************************************************************)
(* Model of the chutoro-core HNSW index (src/chutoro-core/src/hnsw):       *)
(* the Graph (node table, entry point), the insertion pipeline             *)
(* plan -> apply -> trim -> commit, and CpuHnsw's insert/search with the   *)
(* graph RwLock, the relaxed atomic length counter and concurrent callers. *)
(***************************************************************************)
EXTENDS Integers, Sequences, FiniteSets, TLC

\* ------------------------------------------------------------------------
\* Bounds of the model
\* ------------------------------------------------------------------------
\* Node ids offered to insert: 0 .. NumIds-1.
NumIds == 3
\* The max_level the index is configured with (HnswParams::new needs > 0).
MaxLevel == 1
\* The max_connections the index is configured with (also > 0).
MaxConnections == 1
\* Threads of the concurrent specification that each call insert once;
\* thread t inserts id t - 1.
NumInserters == 2
\* Threads of the concurrent specification that each call search once.
NumSearchers == 1
\* The ef_construction the index is configured with (also > 0).
EfConstruction == 2
\* The k of a search call: 0 .. MaxK.
MaxK == 3
\* The oracle call of a search that fails, counted from the first: 1 .. MaxFaultCall.
MaxFaultCall == 3
MaxBatch == 3

\* The scenario of the test builds_and_searches: five values on a line,
\* HnswParams::new(2, m, ef) with (m, ef) = (2, 2) or (2, 1), search(0, 3).
LineNodes == 5
LineMaxLevel == 2
LineMaxConnections == 2
LineEf == 2
LineEfNarrow == 1
LineQuery == 0
LineK == 3

Ids == 0 .. (NumIds - 1)
Inserters == 1 .. NumInserters
Searchers == (NumInserters + 1) .. (NumInserters + NumSearchers)
Threads == Inserters \cup Searchers
ConcIds == { t - 1 : t \in Inserters }

\* ------------------------------------------------------------------------
\* Option<T>: None is the empty sequence, Some(x) the one-element sequence.
\* ------------------------------------------------------------------------
None == << >>
Some(x) == << x >>
IsSome(o) == Len(o) = 1
IsNone(o) == Len(o) = 0
Unwrap(o) == o[1]

Min(a, b) == IF a <= b THEN a ELSE b
Max(a, b) == IF a >= b THEN a ELSE b
Abs(x) == IF x < 0 THEN -x ELSE x
Contains(s, x) == \E i \in 1 .. Len(s) : s[i] = x
Take(s, n) == SubSeq(s, 1, Min(n, Len(s)))
Range(s) == { s[i] : i \in 1 .. Len(s) }
\* A local binding (Rust's `let value = ...;` followed by Body).  The value
\* is computed once, before Body, as a `let` computes it.
With(value, Body(_)) == CHOOSE r \in { Body(x) : x \in { value } } : TRUE

\* ------------------------------------------------------------------------
\* Distance oracle (DataSource).  The values a well-behaved oracle returns
\* are those of the tests' LineSource over the f32 values
\* [0.0, 0.2, 0.4, 0.6, 0.8], written in units of 2^-26 (each f32 value is
\* an exact multiple of it).  Ids 0 and 2 are equidistant from id 1, so
\* ties occur.  Failures of the oracle are chosen by the actions that call
\* it.
\* ------------------------------------------------------------------------
Values == << 0, 13421773, 26843546, 40265320, 53687092 >>
Point(i) == Values[i + 1]

\* Rounding of a non-negative multiple of 2^-26 below 1.0 to the nearest
\* f32 (24 significant bits, ties to even), as f32 subtraction does.
RoundTo(n, step) ==
    LET q == n \div step
        r == n % step
    IN  IF 2 * r > step \/ (2 * r = step /\ q % 2 = 1)
        THEN (q + 1) * step
        ELSE q * step

F32Round(n) ==
    IF n < 16777216 THEN n
    ELSE IF n < 33554432 THEN RoundTo(n, 2)
    ELSE RoundTo(n, 4)

\* LineSource::distance: (query - candidate).abs() in f32 arithmetic.
Distance(query, candidate) == F32Round(Abs(Point(query) - Point(candidate)))

\* Outcomes of one oracle call: a finite answer, the two DataSourceError
\* kinds, or a non-finite value.
OracleOutcomes == { "finite", "OutOfBounds", "Operation", "NonFinite" }
OracleFaults == OracleOutcomes \ { "finite" }

\* A call for several distances asks candidate by candidate, in the order
\* given.  An outcome of OracleOutcomes is the first candidate's answer, the
\* others answering finitely; with an outcome of MixedOutcomes the first
\* candidate's distance is non-finite and the second candidate's call fails.
MixedOutcomes == { "NonFiniteThenOutOfBounds", "NonFiniteThenOperation" }

\* DataSource::distance for the i-th candidate of the call
Answer(outcome, i) ==
    IF outcome \in MixedOutcomes
    THEN (IF i = 1 THEN "NonFinite"
          ELSE IF i = 2
          THEN (IF outcome = "NonFiniteThenOutOfBounds" THEN "OutOfBounds"
                ELSE "Operation")
          ELSE "finite")
    ELSE IF i = 1 THEN outcome ELSE "finite"

\* validate_distance / validate_batch_distances: the HnswError produced
\* from a faulty oracle outcome.
DataSourceError(kind) == "DataSource:" \o kind
InvalidNonFinite == "InvalidParameters:non-finite distance"
\* validate_distance without the is_finite check.
ValidateOutcome_NoFiniteCheck(outcome) == DataSourceError(outcome)

\* validate_distance that reports every failure as InvalidParameters.
ValidateOutcome_Reinterprets(outcome) == InvalidNonFinite

ValidateOutcome(outcome) ==
    IF outcome = "NonFinite" THEN InvalidNonFinite ELSE DataSourceError(outcome)


InvalidLevel == "InvalidParameters:level exceeds max_level"
InvalidHasEntry == "InvalidParameters:graph already has an entry point"
InvalidNoEntry == "InvalidParameters:cannot plan insertion without an entry point"
DuplicateNode == "DuplicateNode"
GraphInvariantViolation == "GraphInvariantViolation"
Ok == "Ok"

\* validate_distance: the answer of the one candidate asked, `?` on an
\* error and then the is_finite check.
ValidateDistance(outcome) ==
    IF Answer(outcome, 1) = "finite" THEN Ok ELSE ValidateOutcome(Answer(outcome, 1))

\* validate_batch_distances on a call for n candidates.  batch_distances
\* collects the answers into a Result, so the first error ends the call
\* whatever was answered before it, and the `?` returns it; only a vector
\* of n distances reaches the is_finite check.
ValidateBatchDistances(outcome, n) ==
    IF \E i \in 1 .. n : Answer(outcome, i) \in { "OutOfBounds", "Operation" }
    THEN ValidateOutcome(Answer(outcome, CHOOSE i \in 1 .. n :
            /\ Answer(outcome, i) \in { "OutOfBounds", "Operation" }
            /\ \A j \in 1 .. (i - 1) :
                   Answer(outcome, j) \notin { "OutOfBounds", "Operation" }))
    ELSE IF \E i \in 1 .. n : Answer(outcome, i) = "NonFinite"
    THEN ValidateOutcome("NonFinite")
    ELSE Ok

\* ------------------------------------------------------------------------
\* slice::sort_unstable_by as the standard library computes it.  The order
\* of equal keys is unspecified by its contract; the installed library
\* fixes it as follows.  Slices of at most 20 elements are sorted by
\* insertion sort, which keeps equal keys in their original order.  Longer
\* slices go through ipnsort: an existing run over the whole slice is kept
\* (or reversed); otherwise quicksort with a median-of-three pivot, a
\* Lomuto partition and a stable small sort below 33 elements, falling
\* back to heapsort when the recursion limit runs out.  The elements are
\* [key, pos]: the key compared and the element's original position.
\* ------------------------------------------------------------------------
MaxLenAlwaysInsertionSort == 20
SmallSortThreshold == 32
PseudoMedianRecThreshold == 64

SortItems(keys) == [ i \in 1 .. Len(keys) |-> [ key |-> keys[i], pos |-> i ] ]

\* insert_tail: the last element is moved left past every greater one.
RECURSIVE InsertTail(_, _)
InsertTail(sorted, x) ==
    IF sorted = << >> THEN << x >>
    ELSE IF x.key < sorted[Len(sorted)].key
         THEN Append(InsertTail(SubSeq(sorted, 1, Len(sorted) - 1), x),
                     sorted[Len(sorted)])
         ELSE Append(sorted, x)

\* insertion_sort_shift_left(v, 1)
RECURSIVE InsertionSortShiftLeft(_)
InsertionSortShiftLeft(v) ==
    IF v = << >> THEN << >>
    ELSE InsertTail(InsertionSortShiftLeft(SubSeq(v, 1, Len(v) - 1)), v[Len(v)])

\* bidirectional_merge of two sorted runs: of two equal heads the left
\* run's comes first.
RECURSIVE BidirectionalMerge(_, _)
BidirectionalMerge(left, right) ==
    IF left = << >> THEN right
    ELSE IF right = << >> THEN left
    ELSE IF right[1].key < left[1].key
         THEN << right[1] >> \o BidirectionalMerge(left, Tail(right))
         ELSE << left[1] >> \o BidirectionalMerge(Tail(left), right)

\* small_sort_general: the two halves are sorted (sort8_stable or
\* sort4_stable, then insert_tail for the rest of the half) and merged.
SmallSortGeneral(v) ==
    IF Len(v) < 2 THEN v
    ELSE BidirectionalMerge(
             InsertionSortShiftLeft(SubSeq(v, 1, Len(v) \div 2)),
             InsertionSortShiftLeft(SubSeq(v, Len(v) \div 2 + 1, Len(v))))

\* median3: the position of the median of v[a], v[b], v[c].
Median3(v, a, b, c) ==
    LET x == v[a].key < v[b].key
        y == v[a].key < v[c].key
        z == v[b].key < v[c].key
    IN  IF x = y THEN (IF z # x THEN c ELSE b) ELSE a

RECURSIVE Median3Rec(_, _, _, _, _)
Median3Rec(v, a, b, c, n) ==
    IF n * 8 >= PseudoMedianRecThreshold
    THEN Median3(v,
                 Median3Rec(v, a, a + (n \div 8) * 4, a + (n \div 8) * 7, n \div 8),
                 Median3Rec(v, b, b + (n \div 8) * 4, b + (n \div 8) * 7, n \div 8),
                 Median3Rec(v, c, c + (n \div 8) * 4, c + (n \div 8) * 7, n \div 8))
    ELSE Median3(v, a, b, c)

\* choose_pivot on a slice of at least 8 elements (positions from 1).
ChoosePivot(v) ==
    With(Len(v) \div 8, LAMBDA len_div_8 :
         IF Len(v) < PseudoMedianRecThreshold
         THEN Median3(v, 1, 1 + len_div_8 * 4, 1 + len_div_8 * 7)
         ELSE Median3Rec(v, 1, 1 + len_div_8 * 4, 1 + len_div_8 * 7, len_div_8))

\* The comparison handed to partition: is_less, or |a, b| !is_less(b, a)
\* when the elements equal to the ancestor pivot are split off.
PartitionLess(a, b, orEqual) ==
    IF orEqual THEN ~ (b.key < a.key) ELSE a.key < b.key

\* partition_lomuto_branchless_cyclic, one pass of loop_body: the element
\* at `right` goes to position num_lt and the one that was there into the
\* gap.  Positions count from 1, num_lt from 0.
LomutoBody(state, x, right, pivot, orEqual) ==
    [ v      |-> [ state.v EXCEPT ![state.gap] = state.v[state.num_lt + 1],
                                  ![state.num_lt + 1] = x ],
      gap    |-> right,
      num_lt |-> state.num_lt + (IF PartitionLess(x, pivot, orEqual) THEN 1 ELSE 0) ]

\* The passes of loop_body for right = lo .. hi, in that order.
RECURSIVE LomutoLoop(_, _, _, _, _)
LomutoLoop(state, lo, hi, pivot, orEqual) ==
    IF lo > hi THEN state
    ELSE IF lo = hi THEN LomutoBody(state, state.v[lo], lo, pivot, orEqual)
    ELSE With(LomutoLoop(state, lo, (lo + hi) \div 2, pivot, orEqual),
              LAMBDA half : LomutoLoop(half, (lo + hi) \div 2 + 1, hi, pivot, orEqual))

\* The whole partition of the slice without the pivot: the first element
\* is held back as the gap's value and placed last.
PartitionLomuto(v, pivot, orEqual) ==
    IF v = << >> THEN [ v |-> v, gap |-> 0, num_lt |-> 0 ]
    ELSE With(LomutoLoop([ v |-> v, gap |-> 1, num_lt |-> 0 ], 2, Len(v), pivot, orEqual),
              LAMBDA state : LomutoBody(state, v[1], state.gap, pivot, orEqual))

SwapItems(v, i, j) == [ v EXCEPT ![i] = v[j], ![j] = v[i] ]

\* partition: [v, num_lt], the pivot ends at position num_lt + 1.
Partition(v, pivot_pos, orEqual) ==
    With(SwapItems(v, 1, pivot_pos), LAMBDA swapped :
    With(PartitionLomuto(Tail(swapped), swapped[1], orEqual), LAMBDA state :
         [ v      |-> SwapItems(<< swapped[1] >> \o state.v, 1, state.num_lt + 1),
           num_lt |-> state.num_lt ]))

\* heapsort's sift_down on the first n elements, from `node` (from 0).
RECURSIVE SortSiftDown(_, _, _)
SortSiftDown(v, n, node) ==
    IF 2 * node + 1 >= n THEN v
    ELSE With(IF 2 * node + 2 < n /\ v[2 * node + 2].key < v[2 * node + 3].key
              THEN 2 * node + 2 ELSE 2 * node + 1,
              LAMBDA child :
                  IF ~ (v[node + 1].key < v[child + 1].key) THEN v
                  ELSE SortSiftDown(SwapItems(v, node + 1, child + 1), n, child))

\* heapsort, pass i: the heap is built for i >= len, then the maximum is
\* swapped behind the heap of the first i elements.
HeapsortPass(v, i) ==
    IF i >= Len(v) THEN SortSiftDown(v, Len(v), i - Len(v))
    ELSE SortSiftDown(SwapItems(v, 1, i + 1), i, 0)

\* The passes i = hi down to lo, in that order.
RECURSIVE HeapsortPasses(_, _, _)
HeapsortPasses(v, hi, lo) ==
    IF hi < lo THEN v
    ELSE IF hi = lo THEN HeapsortPass(v, hi)
    ELSE With(HeapsortPasses(v, hi, (lo + hi) \div 2 + 1),
              LAMBDA half : HeapsortPasses(half, (lo + hi) \div 2, lo))

Heapsort(v) == HeapsortPasses(v, Len(v) + Len(v) \div 2 - 1, 0)

\* quicksort; `ancestor` is << >> or the one pivot to the left of v.
RECURSIVE Quicksort(_, _, _)
Quicksort(v, ancestor, limit) ==
    IF Len(v) <= SmallSortThreshold THEN SmallSortGeneral(v)
    ELSE IF limit = 0 THEN Heapsort(v)
    ELSE With(ChoosePivot(v), LAMBDA pivot_pos :
         IF ancestor # << >> /\ ~ (ancestor[1].key < v[pivot_pos].key)
         THEN With(Partition(v, pivot_pos, TRUE), LAMBDA part :
                   SubSeq(part.v, 1, part.num_lt + 1)
                   \o Quicksort(SubSeq(part.v, part.num_lt + 2, Len(v)),
                                << >>, limit - 1))
         ELSE With(Partition(v, pivot_pos, FALSE), LAMBDA part :
                   Quicksort(SubSeq(part.v, 1, part.num_lt), ancestor, limit - 1)
                   \o << part.v[part.num_lt + 1] >>
                   \o Quicksort(SubSeq(part.v, part.num_lt + 2, Len(v)),
                                << part.v[part.num_lt + 1] >>, limit - 1)))

\* find_existing_run: [run_len, was_reversed] of a slice of 2 or more.
\* The run ends before the first element that does not continue it.
RunLength(v, descending) ==
    CHOOSE run_len \in 2 .. Len(v) :
        /\ \A i \in 3 .. run_len : (v[i].key < v[i - 1].key) = descending
        /\ \/ run_len = Len(v)
           \/ (v[run_len + 1].key < v[run_len].key) # descending

FindExistingRun(v) ==
    [ run_len      |-> RunLength(v, v[2].key < v[1].key),
      was_reversed |-> v[2].key < v[1].key ]

\* floor(log2(n)) for n >= 1
RECURSIVE ILog2(_)
ILog2(n) == IF n < 2 THEN 0 ELSE 1 + ILog2(n \div 2)

Ipnsort(v) ==
    With(FindExistingRun(v), LAMBDA run :
         IF run.run_len = Len(v)
         THEN (IF run.was_reversed
               THEN [ i \in 1 .. Len(v) |-> v[Len(v) + 1 - i] ]
               ELSE v)
         ELSE Quicksort(v, << >>, 2 * ILog2(Len(v))))

\* sort_unstable_by on a slice with these keys: the original positions of
\* the elements in their sorted order.
SortUnstableBy(keys) ==
    With(IF Len(keys) < 2 THEN SortItems(keys)
         ELSE IF Len(keys) <= MaxLenAlwaysInsertionSort
              THEN InsertionSortShiftLeft(SortItems(keys))
              ELSE Ipnsort(SortItems(keys)),
         LAMBDA sorted : [ i \in 1 .. Len(keys) |-> sorted[i].pos ])

\* ------------------------------------------------------------------------
\* sort_unstable_by of ids by their distance to q.  A slice of at most 20
\* elements is written out as the insertion sort it is; a longer one is
\* put in the order SortUnstableBy gives.
\* ------------------------------------------------------------------------
RECURSIVE InsertSorted(_, _, _)
InsertSorted(sorted, x, q) ==
    IF sorted = << >> THEN << x >>
    ELSE IF Distance(q, x) < Distance(q, sorted[Len(sorted)])
         THEN Append(InsertSorted(SubSeq(sorted, 1, Len(sorted) - 1), x, q),
                     sorted[Len(sorted)])
         ELSE Append(sorted, x)

RECURSIVE SortByDistance(_, _)
SortByDistance(ids, q) ==
    IF ids = << >> THEN << >>
    ELSE IF Len(ids) <= MaxLenAlwaysInsertionSort
         THEN InsertSorted(SortByDistance(SubSeq(ids, 1, Len(ids) - 1), q),
                           ids[Len(ids)], q)
         ELSE With(SortUnstableBy([ i \in 1 .. Len(ids) |-> Distance(q, ids[i]) ]),
                   LAMBDA order : [ i \in 1 .. Len(ids) |-> ids[order[i]] ])

\* ------------------------------------------------------------------------
\* Node: a vector of neighbour lists, one per layer 0 .. level.
\* ------------------------------------------------------------------------
NodeNew(level) == [ l \in 1 .. (level + 1) |-> << >> ]

\* Node::neighbours(level): the list, or the empty slice past the end.
Neighbours(node, level) ==
    IF level + 1 <= Len(node) THEN node[level + 1] ELSE << >>

\* Node::neighbours_mut(level) followed by an assignment of `list`:
\* the vector is resized to level + 1 lists when it is shorter.
SetNeighbours(node, level, list) ==
    [ l \in 1 .. Max(Len(node), level + 1) |->
        IF l = level + 1 THEN list
        ELSE IF l <= Len(node) THEN node[l] ELSE << >> ]

\* Graph::node(id): the slot's node, None when absent or out of the table.
GraphNode(nodes, id) ==
    IF id + 1 <= Len(nodes) THEN nodes[id + 1] ELSE None

Attached(nodes, id) == IsSome(GraphNode(nodes, id))
AttachedIds(nodes) == { i \in 0 .. (Len(nodes) - 1) : IsSome(nodes[i + 1]) }

\* Graph::new(params, capacity): `capacity` empty slots, no entry point.
GraphNewNodes(capacity) == [ i \in 1 .. capacity |-> None ]

\* Graph::ensure_capacity
EnsureCapacity(nodes, capacity) ==
    IF Len(nodes) < capacity
    THEN [ i \in 1 .. capacity |-> IF i <= Len(nodes) THEN nodes[i] ELSE None ]
    ELSE nodes

\* attach_node without the occupied-slot check: the slot is overwritten.
AttachNode_Overwrite(nodes, maxLevel, node, level) ==
    IF level > maxLevel
    THEN [ err |-> InvalidLevel, nodes |-> nodes ]
    ELSE [ err |-> Ok,
           nodes |-> [ EnsureCapacity(nodes, node + 1) EXCEPT
                          ![node + 1] = Some(NodeNew(level)) ] ]

\* attach_node that grows the table before it checks the level.
AttachNode_GrowsFirst(nodes, maxLevel, node, level) ==
    LET grown == EnsureCapacity(nodes, node + 1)
    IN  IF level > maxLevel
        THEN [ err |-> InvalidLevel, nodes |-> grown ]
        ELSE IF IsSome(grown[node + 1])
             THEN [ err |-> DuplicateNode, nodes |-> grown ]
             ELSE [ err |-> Ok,
                    nodes |-> [ grown EXCEPT ![node + 1] = Some(NodeNew(level)) ] ]

\* Graph::attach_node: [err, nodes].
AttachNode(nodes, maxLevel, node, level) ==
    IF level > maxLevel
    THEN [ err |-> InvalidLevel, nodes |-> nodes ]
    ELSE LET grown == EnsureCapacity(nodes, node + 1)
         IN  IF IsSome(grown[node + 1])
             THEN [ err |-> DuplicateNode, nodes |-> grown ]
             ELSE [ err |-> Ok,
                    nodes |-> [ grown EXCEPT ![node + 1] = Some(NodeNew(level)) ] ]

\* insert_first that records the entry point at layer 0.
InsertFirst_LevelZero(nodes, entry, maxLevel, ctx) ==
    IF IsSome(entry)
    THEN [ err |-> InvalidHasEntry, nodes |-> nodes, entry |-> entry ]
    ELSE With(AttachNode(nodes, maxLevel, ctx.node, ctx.level), LAMBDA attached :
             IF attached.err # Ok
             THEN [ err |-> attached.err, nodes |-> attached.nodes, entry |-> entry ]
             ELSE [ err |-> Ok, nodes |-> attached.nodes,
                    entry |-> Some([ node |-> ctx.node, level |-> 0 ]) ])

\* insert_first that records the entry point without attaching the node.
InsertFirst_EntryOnly(nodes, entry, maxLevel, ctx) ==
    IF IsSome(entry)
    THEN [ err |-> InvalidHasEntry, nodes |-> nodes, entry |-> entry ]
    ELSE [ err |-> Ok, nodes |-> nodes,
           entry |-> Some([ node |-> ctx.node, level |-> ctx.level ]) ]

\* Graph::insert_first: [err, nodes, entry].
InsertFirst(nodes, entry, maxLevel, ctx) ==
    IF IsSome(entry)
    THEN [ err |-> InvalidHasEntry, nodes |-> nodes, entry |-> entry ]
    ELSE With(AttachNode(nodes, maxLevel, ctx.node, ctx.level), LAMBDA attached :
             IF attached.err # Ok
             THEN [ err |-> attached.err, nodes |-> attached.nodes, entry |-> entry ]
             ELSE [ err |-> Ok, nodes |-> attached.nodes,
                    entry |-> Some([ node |-> ctx.node, level |-> ctx.level ]) ])

\* ------------------------------------------------------------------------
\* Graph::plan_insertion
\* ------------------------------------------------------------------------
\* The scan of the node table: occupied slots other than the new node, in
\* ascending id order.
RECURSIVE CandidateIdsUpTo(_, _, _)
CandidateIdsUpTo(nodes, node, n) ==
    IF n = 0 THEN << >>
    ELSE LET rest == CandidateIdsUpTo(nodes, node, n - 1)
         IN  IF IsSome(nodes[n]) /\ (n - 1) # node
             THEN Append(rest, n - 1)
             ELSE rest

CandidateIds(nodes, node) == CandidateIdsUpTo(nodes, node, Len(nodes))

\* plan_insertion asks the oracle for one batch exactly when an entry point
\* exists and the scan found a candidate.
PlanCallsOracle(nodes, entry, ctx) ==
    IsSome(entry) /\ CandidateIds(nodes, ctx.node) # << >>

\* A plan that offers a layer only the candidates that have that layer.
PlanInsertion_LevelAware(nodes, entry, maxConn, ctx) ==
    IF IsNone(entry)
    THEN [ err |-> InvalidNoEntry, layers |-> << >> ]
    ELSE With(CandidateIds(nodes, ctx.node), LAMBDA candidate_ids :
             IF candidate_ids = << >>
             THEN [ err |-> Ok, layers |-> << >> ]
             ELSE With(SortByDistance(candidate_ids, ctx.node), LAMBDA scored :
                    [ err |-> Ok,
                      layers |-> [ l \in 1 .. (ctx.level + 1) |->
                          [ level |-> l - 1,
                            neighbours |->
                              Take(SelectSeq(scored,
                                     LAMBDA id : Len(Unwrap(nodes[id + 1])) >= l),
                                   maxConn) ] ] ]))

\* The plan when the oracle answers with finite distances: [err, layers];
\* layers is a sequence of [level, neighbours], one per layer 0 .. ctx.level.
PlanInsertion(nodes, entry, maxConn, ctx) ==
    IF IsNone(entry)
    THEN [ err |-> InvalidNoEntry, layers |-> << >> ]
    ELSE With(CandidateIds(nodes, ctx.node), LAMBDA candidate_ids :
             IF candidate_ids = << >>
             THEN [ err |-> Ok, layers |-> << >> ]
             ELSE With(SortByDistance(candidate_ids, ctx.node), LAMBDA scored :
                    [ err |-> Ok,
                      layers |-> [ l \in 1 .. (ctx.level + 1) |->
                          [ level |-> l - 1,
                            neighbours |-> SortByDistance(Take(scored, maxConn),
                                                          ctx.node) ] ] ]))

\* InsertionPlan::take_for_level
TakeForLevel(layers, level) == SelectSeq(layers, LAMBDA layer : layer.level <= level)

\* ------------------------------------------------------------------------
\* TrimJob::prioritise: swap the new node with the first candidate.
\* ------------------------------------------------------------------------
Position(s, x) == CHOOSE i \in 1 .. Len(s) : s[i] = x /\ \A j \in 1 .. (i - 1) : s[j] # x

Prioritise(candidates, new_node) ==
    IF Contains(candidates, new_node)
    THEN LET index == Position(candidates, new_node)
         IN  [ candidates EXCEPT ![1] = candidates[index], ![index] = candidates[1] ]
    ELSE candidates

\* ------------------------------------------------------------------------
\* Graph::apply_insertion
\* ------------------------------------------------------------------------
\* CandidateMap::entry_mut: position of a key in the staged entries (0 when
\* the key is new).
StagedPosition(staged, node, level) ==
    IF \E i \in 1 .. Len(staged) : staged[i].node = node /\ staged[i].level = level
    THEN CHOOSE i \in 1 .. Len(staged) : staged[i].node = node /\ staged[i].level = level
    ELSE 0

\* A reverse edge that adds the neighbour's own id instead of the new node.
ReverseEdgeCandidate_Self(new_node, nid) == nid

\* The candidate a reverse edge adds to the staged list of neighbour `nid`.
ReverseEdgeCandidate(new_node, nid) == new_node

\* A trim scheduled as soon as the budget is reached.
NeedsTrim_AtBudget(candidates, maxConn) == Len(candidates) >= maxConn

\* candidates.len() > edge_ctx.max_connections
NeedsTrim(candidates, maxConn) == Len(candidates) > maxConn

\* One pass of the inner loop for planned neighbour `nid` at `level`.
\* acc = [err, nn, staged, jobs]: nn the new node's lists, staged the
\* CandidateMap entries in insertion order, jobs the trim jobs.
ApplyNeighbour(acc, nodes, maxConn, ctx, level, nid) ==
    IF acc.err # Ok \/ nid = ctx.node THEN acc
    ELSE IF level + 1 > Len(acc.nn)
    THEN [ acc EXCEPT !.err = GraphInvariantViolation ]
    ELSE LET layer_vec == acc.nn[level + 1]
             nn2 == IF Contains(layer_vec, nid) THEN acc.nn
                    ELSE [ acc.nn EXCEPT ![level + 1] = Append(layer_vec, nid) ]
             pos == StagedPosition(acc.staged, nid, level)
             staged1 == IF pos = 0
                        THEN Append(acc.staged,
                                    [ node |-> nid, level |-> level, candidates |-> << >> ])
                        ELSE acc.staged
             at == IF pos = 0 THEN Len(staged1) ELSE pos
             current == staged1[at].candidates
         IN  IF current = << >> /\ ~Attached(nodes, nid)
             THEN [ acc EXCEPT !.err = GraphInvariantViolation,
                               !.nn = nn2, !.staged = staged1 ]
             ELSE LET loaded == IF current = << >>
                                THEN Neighbours(Unwrap(GraphNode(nodes, nid)), level)
                                ELSE current
                      added == ReverseEdgeCandidate(ctx.node, nid)
                      candidates == IF Contains(loaded, added) THEN loaded
                                    ELSE Append(loaded, added)
                      staged2 == [ staged1 EXCEPT ![at].candidates = candidates ]
                      jobs2 == IF NeedsTrim(candidates, maxConn)
                               THEN Append(acc.jobs,
                                      [ node |-> nid, level |-> level,
                                        max_connections |-> maxConn,
                                        candidates |-> Prioritise(candidates, ctx.node) ])
                               ELSE acc.jobs
                  IN  [ err |-> Ok, nn |-> nn2, staged |-> staged2, jobs |-> jobs2 ]

RECURSIVE ApplyNeighbours(_, _, _, _, _, _, _)
ApplyNeighbours(acc, nodes, maxConn, ctx, level, neighbours, n) ==
    IF n = 0 THEN acc
    ELSE ApplyNeighbour(
            ApplyNeighbours(acc, nodes, maxConn, ctx, level, neighbours, n - 1),
            nodes, maxConn, ctx, level, neighbours[n])

RECURSIVE ApplyLayers(_, _, _, _, _, _)
ApplyLayers(acc, nodes, maxConn, ctx, layers, n) ==
    IF n = 0 THEN acc
    ELSE LET before == ApplyLayers(acc, nodes, maxConn, ctx, layers, n - 1)
             layer == layers[n]
             taken == Take(layer.neighbours, maxConn)
         IN  IF layer.level > ctx.level THEN before
             ELSE ApplyNeighbours(before, nodes, maxConn, ctx, layer.level,
                                  taken, Len(taken))

\* promote_entry that also promotes a node of the entry point's level.
PromoteEntry_OnTies(entry, level) == IsNone(entry) \/ level >= Unwrap(entry).level

\* promote_entry with the comparison turned around.
PromoteEntry_Inverted(entry, level) == IsNone(entry) \/ level < Unwrap(entry).level

\* The promote_entry flag: no entry point, or a level above the entry's.
PromoteEntry(entry, level) == IsNone(entry) \/ level > Unwrap(entry).level

\* The staged candidate lists written straight to the node table.
RECURSIVE WriteStaged(_, _, _)
WriteStaged(table, staged, n) ==
    IF n = 0 THEN table
    ELSE With(WriteStaged(table, staged, n - 1), LAMBDA before :
              [ before EXCEPT ![staged[n].node + 1] =
                  Some(SetNeighbours(Unwrap(@), staged[n].level,
                                     staged[n].candidates)) ])

\* apply_insertion that pushes the reverse edges onto the live lists
\* instead of staging them.
ApplyInsertion_WritesLive(nodes, entry, maxLevel, maxConn, ctx, layers) ==
    LET empty == [ err |-> Ok, nn |-> [ l \in 1 .. (ctx.level + 1) |-> << >> ],
                   staged |-> << >>, jobs |-> << >> ]
        noPrepared == [ node |-> ctx, promote_entry |-> FALSE,
                        new_node_neighbours |-> << >>, updates |-> << >> ]
    IN  With(AttachNode(nodes, maxLevel, ctx.node, ctx.level), LAMBDA attached :
          IF attached.err # Ok
          THEN [ err |-> attached.err, nodes |-> attached.nodes,
                 prepared |-> noPrepared, trim_jobs |-> << >> ]
          ELSE With(ApplyLayers(empty, attached.nodes, maxConn, ctx,
                                layers, Len(layers)), LAMBDA acc :
                 IF acc.err # Ok
                 THEN [ err |-> acc.err, nodes |-> attached.nodes,
                        prepared |-> noPrepared, trim_jobs |-> << >> ]
                 ELSE [ err |-> Ok,
                        nodes |-> WriteStaged(attached.nodes, acc.staged,
                                              Len(acc.staged)),
                        prepared |-> [ node |-> ctx,
                                       promote_entry |-> PromoteEntry(entry, ctx.level),
                                       new_node_neighbours |-> acc.nn,
                                       updates |-> acc.staged ],
                        trim_jobs |-> acc.jobs ]))

\* apply_insertion: [err, nodes, prepared, trim_jobs].  The new node is
\* attached to the live table first; everything else is staged.
ApplyInsertion(nodes, entry, maxLevel, maxConn, ctx, layers) ==
    LET empty == [ err |-> Ok, nn |-> [ l \in 1 .. (ctx.level + 1) |-> << >> ],
                   staged |-> << >>, jobs |-> << >> ]
        noPrepared == [ node |-> ctx, promote_entry |-> FALSE,
                        new_node_neighbours |-> << >>, updates |-> << >> ]
    IN  With(AttachNode(nodes, maxLevel, ctx.node, ctx.level), LAMBDA attached :
          IF attached.err # Ok
          THEN [ err |-> attached.err, nodes |-> attached.nodes,
                 prepared |-> noPrepared, trim_jobs |-> << >> ]
          ELSE With(ApplyLayers(empty, attached.nodes, maxConn, ctx,
                                layers, Len(layers)), LAMBDA acc :
                 IF acc.err # Ok
                 THEN [ err |-> acc.err, nodes |-> attached.nodes,
                        prepared |-> noPrepared, trim_jobs |-> << >> ]
                 ELSE [ err |-> Ok, nodes |-> attached.nodes,
                        prepared |-> [ node |-> ctx,
                                       promote_entry |-> PromoteEntry(entry, ctx.level),
                                       new_node_neighbours |-> acc.nn,
                                       updates |-> acc.staged ],
                        trim_jobs |-> acc.jobs ]))

\* ------------------------------------------------------------------------
\* Trim-job evaluation (the closure mapped over trim_jobs in insert_node)
\* ------------------------------------------------------------------------
\* A trim that truncates from the wrong end: the furthest candidates stay.
EvaluateTrim_KeepsFurthest(job, new_node) ==
    [ node |-> job.node, level |-> job.level,
      neighbours |->
        With(SortByDistance(Prioritise(job.candidates, new_node), job.node),
             LAMBDA combined :
               SubSeq(combined,
                      Max(1, Len(combined) - job.max_connections + 1),
                      Len(combined))) ]

\* A trim that sorts but forgets to truncate.
EvaluateTrim_NoTruncate(job, new_node) ==
    [ node |-> job.node, level |-> job.level,
      neighbours |-> SortByDistance(Prioritise(job.candidates, new_node), job.node) ]

\* A trim that keeps one candidate fewer than the budget.
EvaluateTrim_TruncatesShort(job, new_node) ==
    [ node |-> job.node, level |-> job.level,
      neighbours |->
        Take(SortByDistance(Prioritise(job.candidates, new_node), job.node),
             job.max_connections - 1) ]

EvaluateTrim(job, new_node) ==
    LET candidates == Prioritise(job.candidates, new_node)
        combined == SortByDistance(candidates, job.node)
    IN  [ node |-> job.node, level |-> job.level,
          neighbours |-> Take(combined, job.max_connections) ]

EvaluateTrims(jobs, new_node) ==
    [ j \in 1 .. Len(jobs) |-> EvaluateTrim(jobs[j], new_node) ]

\* ------------------------------------------------------------------------
\* Graph::commit_insertion
\* ------------------------------------------------------------------------
\* A trim_map keyed by the node alone.
TrimPosition_AnyLevel(trims, node, level) ==
    IF \E i \in 1 .. Len(trims) : trims[i].node = node
    THEN CHOOSE i \in 1 .. Len(trims) :
            /\ trims[i].node = node
            /\ \A j \in (i + 1) .. Len(trims) : trims[j].node # node
    ELSE 0

\* trim_map: the last result inserted for a key wins.
TrimPosition(trims, node, level) ==
    IF \E i \in 1 .. Len(trims) : trims[i].node = node /\ trims[i].level = level
    THEN CHOOSE i \in 1 .. Len(trims) :
            /\ trims[i].node = node /\ trims[i].level = level
            /\ \A j \in (i + 1) .. Len(trims) :
                    ~(trims[j].node = node /\ trims[j].level = level)
    ELSE 0

RECURSIVE WriteNewNode(_, _, _)
WriteNewNode(node, lists, n) ==
    IF n = 0 THEN node
    ELSE SetNeighbours(WriteNewNode(node, lists, n - 1), n - 1, lists[n])

\* The updates loop; a trim result is removed from the map once used, so a
\* second update of the same key falls back to its own candidates.
RECURSIVE CommitUpdates(_, _, _, _)
CommitUpdates(acc, updates, trims, n) ==
    IF n = 0 THEN acc
    ELSE LET before == CommitUpdates(acc, updates, trims, n - 1)
             update == updates[n]
             pos == TrimPosition(trims, update.node, update.level)
             used == \E m \in 1 .. (n - 1) :
                        updates[m].node = update.node /\ updates[m].level = update.level
             neighbours == IF pos # 0 /\ ~used THEN trims[pos].neighbours
                           ELSE update.candidates
         IN  IF before.err # Ok THEN before
             ELSE IF ~Attached(before.nodes, update.node)
             THEN [ before EXCEPT !.err = GraphInvariantViolation ]
             ELSE [ before EXCEPT !.nodes[update.node + 1] =
                      Some(SetNeighbours(Unwrap(before.nodes[update.node + 1]),
                                         update.level, neighbours)) ]

\* commit_insertion: [err, nodes, entry].
CommitInsertion(nodes, entry, prepared, trims) ==
    IF ~Attached(nodes, prepared.node.node)
    THEN [ err |-> GraphInvariantViolation, nodes |-> nodes, entry |-> entry ]
    ELSE LET id == prepared.node.node
             written == [ nodes EXCEPT ![id + 1] =
                            Some(WriteNewNode(Unwrap(nodes[id + 1]),
                                              prepared.new_node_neighbours,
                                              Len(prepared.new_node_neighbours))) ]
         IN  With(CommitUpdates([ err |-> Ok, nodes |-> written ],
                                prepared.updates, trims, Len(prepared.updates)),
                  LAMBDA updated :
                    IF updated.err # Ok
                    THEN [ err |-> updated.err, nodes |-> updated.nodes,
                           entry |-> entry ]
                    ELSE [ err |-> Ok, nodes |-> updated.nodes,
                           entry |-> IF prepared.promote_entry
                                     THEN Some([ node |-> prepared.node.node,
                                                 level |-> prepared.node.level ])
                                     ELSE entry ])

\* ------------------------------------------------------------------------
\* Graph::insert_node: plan, apply, evaluate the trim jobs, commit.
\* `fault` names the oracle call that fails, if any: [stage, kind] with
\* stage "plan" (the batch of the planning scan), "trim" (the batch of some
\* trim job) or "none".  Result: [err, nodes, entry].
\* ------------------------------------------------------------------------
NoFault == [ stage |-> "none", kind |-> "finite" ]

\* A trim error that is dropped instead of propagated.
TrimOutcome_Swallowed(fault, trim_jobs) == Ok

\* The collected Result of the trim jobs' map: the error of the failing
\* batch call when a job's oracle call fails, Ok otherwise.
TrimOutcome(fault, trim_jobs) ==
    IF fault.stage = "trim" /\ trim_jobs # << >>
    THEN ValidateBatchDistances(fault.kind, Len(trim_jobs[1].candidates))
    ELSE Ok

InsertNode(nodes, entry, params, ctx, fault) ==
    IF IsNone(entry)
    THEN [ err |-> InvalidNoEntry, nodes |-> nodes, entry |-> entry ]
    ELSE IF fault.stage = "plan" /\ PlanCallsOracle(nodes, entry, ctx)
    THEN [ err |-> ValidateBatchDistances(fault.kind,
                                           Len(CandidateIds(nodes, ctx.node))),
           nodes |-> nodes, entry |-> entry ]
    ELSE With(PlanInsertion(nodes, entry, params.max_connections, ctx), LAMBDA plan :
         With(ApplyInsertion(nodes, entry, params.max_level, params.max_connections,
                             ctx, TakeForLevel(plan.layers, ctx.level)),
              LAMBDA applied :
                IF applied.err # Ok
                THEN [ err |-> applied.err, nodes |-> applied.nodes, entry |-> entry ]
                ELSE IF TrimOutcome(fault, applied.trim_jobs) # Ok
                THEN [ err |-> TrimOutcome(fault, applied.trim_jobs),
                       nodes |-> applied.nodes, entry |-> entry ]
                ELSE CommitInsertion(applied.nodes, entry, applied.prepared,
                                     EvaluateTrims(applied.trim_jobs, ctx.node))))

\* The oracle call named by `fault` is made by insert_node on this graph.
InsertNodeFaultReached(nodes, entry, params, ctx, fault) ==
    \/ fault.stage = "none"
    \/ fault.stage = "plan" /\ PlanCallsOracle(nodes, entry, ctx)
    \/ /\ fault.stage = "trim"
       /\ IsSome(entry)
       /\ \E plan \in { PlanInsertion(nodes, entry, params.max_connections, ctx) } :
          \E applied \in { ApplyInsertion(nodes, entry, params.max_level,
                               params.max_connections, ctx,
                               TakeForLevel(plan.layers, ctx.level)) } :
             applied.err = Ok /\ applied.trim_jobs # << >>

\* ------------------------------------------------------------------------
\* insert_node with its trim jobs evaluated in any order.  The jobs are
\* mapped in parallel; a schedule is the order in which their closures run.
\* The oracle is deterministic: `failing` holds the jobs whose batch call
\* fails, whenever they run.  The results reach commit_insertion in the
\* order in which they were produced, and the map stops at a failure.
\* ------------------------------------------------------------------------
\* The schedules of n jobs: the permutations of their indices.
Schedules(n) ==
    { order \in [ 1 .. n -> 1 .. n ] :
        \A i, j \in 1 .. n : order[i] = order[j] => i = j }

\* The trim jobs insert_node hands to the parallel map on this graph.
TrimJobsOf(nodes, entry, params, ctx) ==
    IF IsNone(entry) THEN << >>
    ELSE With(PlanInsertion(nodes, entry, params.max_connections, ctx), LAMBDA plan :
              ApplyInsertion(nodes, entry, params.max_level, params.max_connections,
                             ctx, TakeForLevel(plan.layers, ctx.level)).trim_jobs)

\* The number of candidates of the oracle call of insert_node that `stage`
\* names: the scan's candidates, or those of a trim job (0: no such call).
FailingCallSize(nodes, entry, params, ctx, stage) ==
    IF stage = "plan" /\ IsSome(entry) THEN Len(CandidateIds(nodes, ctx.node))
    ELSE IF stage = "trim"
    THEN With(TrimJobsOf(nodes, entry, params, ctx), LAMBDA jobs :
              IF jobs = << >> THEN 0 ELSE Len(jobs[1].candidates))
    ELSE 0

\* A map that keeps the results produced before a failure and reports Ok.
RECURSIVE EvaluateScheduled_KeepsPartial(_, _, _, _, _, _)
EvaluateScheduled_KeepsPartial(jobs, new_node, order, failing, kinds, n) ==
    IF n = 0 THEN [ err |-> Ok, failed |-> FALSE, trims |-> << >> ]
    ELSE With(EvaluateScheduled_KeepsPartial(jobs, new_node, order, failing, kinds, n - 1),
              LAMBDA before :
                IF before.failed THEN before
                ELSE IF order[n] \in failing
                THEN [ before EXCEPT !.failed = TRUE ]
                ELSE [ before EXCEPT !.trims =
                         Append(@, EvaluateTrim(jobs[order[n]], new_node)) ])

\* The first n closures of the schedule: [err, failed, trims].  The jobs
\* of `failing` are those whose batch the oracle fails, job j with the
\* outcome kinds[j]; the error collected is that of the first of them in
\* the schedule.
RECURSIVE EvaluateScheduled(_, _, _, _, _, _)
EvaluateScheduled(jobs, new_node, order, failing, kinds, n) ==
    IF n = 0 THEN [ err |-> Ok, failed |-> FALSE, trims |-> << >> ]
    ELSE With(EvaluateScheduled(jobs, new_node, order, failing, kinds, n - 1),
              LAMBDA before :
                IF before.failed THEN before
                ELSE IF order[n] \in failing
                THEN [ before EXCEPT
                         !.failed = TRUE,
                         !.err = ValidateBatchDistances(
                                     kinds[order[n]],
                                     Len(jobs[order[n]].candidates)) ]
                ELSE [ before EXCEPT !.trims =
                         Append(@, EvaluateTrim(jobs[order[n]], new_node)) ])

\* insert_node under a schedule: [err, nodes, entry].
InsertNodeScheduled(nodes, entry, params, ctx, order, failing, kinds) ==
    IF IsNone(entry)
    THEN [ err |-> InvalidNoEntry, nodes |-> nodes, entry |-> entry ]
    ELSE With(PlanInsertion(nodes, entry, params.max_connections, ctx), LAMBDA plan :
         With(ApplyInsertion(nodes, entry, params.max_level, params.max_connections,
                             ctx, TakeForLevel(plan.layers, ctx.level)),
              LAMBDA applied :
                IF applied.err # Ok
                THEN [ err |-> applied.err, nodes |-> applied.nodes, entry |-> entry ]
                ELSE With(EvaluateScheduled(applied.trim_jobs, ctx.node, order,
                                            failing, kinds, Len(order)),
                          LAMBDA evaluated :
                            IF evaluated.err # Ok
                            THEN [ err |-> evaluated.err, nodes |-> applied.nodes,
                                   entry |-> entry ]
                            ELSE CommitInsertion(applied.nodes, entry,
                                                 applied.prepared, evaluated.trims))))

\* ------------------------------------------------------------------------
\* BinaryHeap as search_layer uses it: a vector in heap order, 1-based here.
\* `reversed` selects the order of ReverseNeighbour (candidates, nearest on
\* top) over that of Neighbour (best, furthest on top).  Both orders compare
\* distances only.
\* ------------------------------------------------------------------------
NeighbourOf(id, distance) == [ id |-> id, distance |-> distance ]

\* a <= b in the heap's order
HeapLe(a, b, reversed) ==
    IF reversed THEN b.distance <= a.distance ELSE a.distance <= b.distance

Swap(h, i, j) == [ h EXCEPT ![i] = h[j], ![j] = h[i] ]

\* sift_up(start, pos): the element at pos rises while it is greater than
\* its parent.
RECURSIVE SiftUp(_, _, _, _)
SiftUp(h, start, pos, reversed) ==
    IF pos > start /\ ~HeapLe(h[pos], h[pos \div 2], reversed)
    THEN SiftUp(Swap(h, pos, pos \div 2), start, pos \div 2, reversed)
    ELSE h

\* The descent of sift_down_to_bottom: the element at pos goes down to a
\* leaf along the greater children (the right one on a tie): [heap, pos].
RECURSIVE SinkToBottom(_, _, _)
SinkToBottom(h, pos, reversed) ==
    IF 2 * pos + 1 <= Len(h)
    THEN IF HeapLe(h[2 * pos], h[2 * pos + 1], reversed)
         THEN SinkToBottom(Swap(h, pos, 2 * pos + 1), 2 * pos + 1, reversed)
         ELSE SinkToBottom(Swap(h, pos, 2 * pos), 2 * pos, reversed)
    ELSE IF 2 * pos = Len(h)
         THEN [ heap |-> Swap(h, pos, 2 * pos), pos |-> 2 * pos ]
         ELSE [ heap |-> h, pos |-> pos ]

\* sift_down_to_bottom(0): down to the bottom, then back up.
SiftDownToBottom(h, reversed) ==
    With(SinkToBottom(h, 1, reversed), LAMBDA sunk :
         SiftUp(sunk.heap, 1, sunk.pos, reversed))

\* BinaryHeap::push
HeapPush(h, item, reversed) == SiftUp(Append(h, item), 1, Len(h) + 1, reversed)

\* BinaryHeap::pop on a non-empty heap: [item, heap].
HeapPop(h, reversed) ==
    [ item |-> h[1],
      heap |-> IF Len(h) = 1 THEN << >>
               ELSE SiftDownToBottom([ SubSeq(h, 1, Len(h) - 1) EXCEPT ![1] = h[Len(h)] ],
                                     reversed) ]

\* result.sort_unstable_by(distance).  A result of at most 20 neighbours is
\* sorted by insertion sort, equal distances keep their order; a longer one
\* is put in the order SortUnstableBy gives.
RECURSIVE InsertNeighbourSorted(_, _)
InsertNeighbourSorted(sorted, x) ==
    IF sorted = << >> THEN << x >>
    ELSE IF x.distance < sorted[Len(sorted)].distance
         THEN Append(InsertNeighbourSorted(SubSeq(sorted, 1, Len(sorted) - 1), x),
                     sorted[Len(sorted)])
         ELSE Append(sorted, x)

\* result.sort_unstable_by left out: the heap's vector as it is.
SortNeighbours_HeapOrder(list) == list

RECURSIVE SortNeighbours(_)
SortNeighbours(list) ==
    IF list = << >> THEN << >>
    ELSE IF Len(list) <= MaxLenAlwaysInsertionSort
         THEN InsertNeighbourSorted(SortNeighbours(SubSeq(list, 1, Len(list) - 1)),
                                    list[Len(list)])
         ELSE With(SortUnstableBy([ i \in 1 .. Len(list) |-> list[i].distance ]),
                   LAMBDA order : [ i \in 1 .. Len(list) |-> list[order[i]] ])

\* ------------------------------------------------------------------------
\* search::search and Graph::search_layer.  The oracle calls of one search
\* are numbered 1, 2, ... in the order they are made; `fault` = [call, kind]
\* names the call that fails (call 0: none does).
\* ------------------------------------------------------------------------
NoSearchFault == [ call |-> 0, kind |-> "finite" ]

\* The next oracle call, made after `calls` calls, is the one that fails.
CallFails(calls, fault) == fault.call = calls + 1

\* The ids of `list` not yet visited, in list order, each once
\* (filter(|id| visited.insert(*id))).
RECURSIVE Fresh(_, _, _)
Fresh(list, visited, n) ==
    IF n = 0 THEN << >>
    ELSE With(Fresh(list, visited, n - 1), LAMBDA before :
              IF list[n] \in visited \/ Contains(before, list[n])
              THEN before
              ELSE Append(before, list[n]))

\* A candidate loop that never bounds `best` by ef.
AddCandidate_Unbounded(st, cand, dist, ef) ==
    [ st EXCEPT !.candidates = HeapPush(@, NeighbourOf(cand, dist), TRUE),
                !.best = HeapPush(@, NeighbourOf(cand, dist), FALSE) ]

\* The body of the loop over (cand, dist) in search_layer.
\* st = [err, calls, visited, candidates, best].
AddCandidate(st, cand, dist, ef) ==
    IF Len(st.best) >= ef /\ ~(dist < st.best[1].distance)
    THEN st
    ELSE With(HeapPush(st.best, NeighbourOf(cand, dist), FALSE), LAMBDA pushed :
              [ st EXCEPT !.candidates = HeapPush(@, NeighbourOf(cand, dist), TRUE),
                          !.best = IF Len(pushed) > ef
                                   THEN HeapPop(pushed, FALSE).heap
                                   ELSE pushed ])

RECURSIVE AddCandidates(_, _, _, _, _)
AddCandidates(st, query, fresh, ef, n) ==
    IF n = 0 THEN st
    ELSE AddCandidate(AddCandidates(st, query, fresh, ef, n - 1),
                      fresh[n], Distance(query, fresh[n]), ef)

\* A break taken as soon as the popped candidate is as far as the furthest
\* result.
ShouldBreak_OnTies(best, item, ef) ==
    Len(best) >= ef /\ item.distance >= best[1].distance

\* The break of search_layer: `best` is full and the popped candidate is
\* farther than best.peek().
ShouldBreak(best, item, ef) ==
    Len(best) >= ef /\ item.distance > best[1].distance

\* One pass of the `while let Some(..) = candidates.pop()` loop of
\* search_layer; `broke` records the break.
SearchLayerStep(st, nodes, query, level, ef, fault) ==
    With(HeapPop(st.candidates, TRUE), LAMBDA popped :
    With([ st EXCEPT !.candidates = popped.heap ], LAMBDA st1 :
      IF ShouldBreak(st1.best, popped.item, ef)
      THEN [ st1 EXCEPT !.broke = TRUE ]
      ELSE IF ~Attached(nodes, popped.item.id)
      THEN [ st1 EXCEPT !.err = GraphInvariantViolation ]
      ELSE With(Neighbours(Unwrap(GraphNode(nodes, popped.item.id)), level),
                LAMBDA list :
           With(Fresh(list, st1.visited, Len(list)), LAMBDA fresh :
             IF fresh = << >>
             THEN st1
             ELSE IF CallFails(st1.calls, fault)
             THEN [ st1 EXCEPT !.err = ValidateBatchDistances(fault.kind, Len(fresh)),
                               !.asked = Len(fresh),
                               !.calls = @ + 1,
                               !.visited = @ \cup Range(fresh) ]
             ELSE AddCandidates([ st1 EXCEPT !.calls = @ + 1,
                                             !.visited = @ \cup Range(fresh) ],
                                query, fresh, ef, Len(fresh))))))

\* The loop is over: an error, the break, or no candidate left.
SearchLayerDone(st) == st.err # Ok \/ st.broke \/ st.candidates = << >>

\* The `while let Some(..) = candidates.pop()` loop of search_layer.
RECURSIVE SearchLayerLoop(_, _, _, _, _, _)
SearchLayerLoop(st, nodes, query, level, ef, fault) ==
    IF SearchLayerDone(st) THEN st
    ELSE SearchLayerLoop(SearchLayerStep(st, nodes, query, level, ef, fault),
                         nodes, query, level, ef, fault)

\* The state of search_layer before its loop, after `calls` oracle calls.
SearchLayerStart(query, from, calls) ==
    [ err |-> Ok, calls |-> calls + 1, asked |-> 0, visited |-> { from },
      broke |-> FALSE,
      candidates |-> << NeighbourOf(from, Distance(query, from)) >>,
      best |-> << NeighbourOf(from, Distance(query, from)) >> ]

\* Graph::search_layer after `calls` oracle calls: [err, calls, neighbours].
SearchLayer(nodes, query, from, level, ef, calls, fault) ==
    IF CallFails(calls, fault)
    THEN [ err |-> ValidateDistance(fault.kind), calls |-> calls + 1,
           asked |-> 1, neighbours |-> << >> ]
    ELSE With(SearchLayerLoop(SearchLayerStart(query, from, calls),
                              nodes, query, level, ef, fault),
              LAMBDA st :
                [ err |-> st.err, calls |-> st.calls, asked |-> st.asked,
                  neighbours |-> IF st.err = Ok THEN SortNeighbours(st.best)
                                 ELSE << >> ])

\* A descent that also moves to a neighbour as far as the current node.
RECURSIVE Improve_OnTies(_, _, _, _)
Improve_OnTies(d, query, neighbours, n) ==
    IF n = 0 THEN d
    ELSE With(Improve_OnTies(d, query, neighbours, n - 1), LAMBDA before :
              IF Distance(query, neighbours[n]) <= before.current_dist
              THEN [ before EXCEPT !.current = neighbours[n],
                                   !.current_dist = Distance(query, neighbours[n]),
                                   !.improved = TRUE ]
              ELSE before)

\* The `for (candidate, distance)` loop of the descent.
\* d = [err, calls, current, current_dist, level, improved].
RECURSIVE Improve(_, _, _, _)
Improve(d, query, neighbours, n) ==
    IF n = 0 THEN d
    ELSE With(Improve(d, query, neighbours, n - 1), LAMBDA before :
              IF Distance(query, neighbours[n]) < before.current_dist
              THEN [ before EXCEPT !.current = neighbours[n],
                                   !.current_dist = Distance(query, neighbours[n]),
                                   !.improved = TRUE ]
              ELSE before)

\* A descent that stays on its layer when no neighbour improves.
DescendStep_StaysOnLayer(d, nodes, query, fault) ==
    IF ~Attached(nodes, d.current)
    THEN [ d EXCEPT !.err = GraphInvariantViolation ]
    ELSE With(Neighbours(Unwrap(GraphNode(nodes, d.current)), d.level),
              LAMBDA neighbours :
           IF neighbours = << >>
           THEN [ d EXCEPT !.level = @ - 1 ]
           ELSE Improve([ d EXCEPT !.calls = @ + 1, !.improved = FALSE ],
                        query, neighbours, Len(neighbours)))

\* One pass of the `while level > 0` loop of search.
DescendStep(d, nodes, query, fault) ==
    IF ~Attached(nodes, d.current)
    THEN [ d EXCEPT !.err = GraphInvariantViolation ]
    ELSE With(Neighbours(Unwrap(GraphNode(nodes, d.current)), d.level),
              LAMBDA neighbours :
           IF neighbours = << >>
           THEN [ d EXCEPT !.level = @ - 1 ]
           ELSE IF CallFails(d.calls, fault)
           THEN [ d EXCEPT !.err = ValidateBatchDistances(fault.kind, Len(neighbours)),
                           !.asked = Len(neighbours),
                           !.calls = @ + 1 ]
           ELSE With(Improve([ d EXCEPT !.calls = @ + 1, !.improved = FALSE ],
                             query, neighbours, Len(neighbours)),
                     LAMBDA improved :
                       IF improved.improved THEN improved
                       ELSE [ improved EXCEPT !.level = @ - 1 ]))

\* The descent is over: an error, or layer 0 is reached.
DescendDone(d) == d.err # Ok \/ d.level = 0

\* The `while level > 0` loop of search.
RECURSIVE Descend(_, _, _, _)
Descend(d, nodes, query, fault) ==
    IF DescendDone(d) THEN d
    ELSE Descend(DescendStep(d, nodes, query, fault), nodes, query, fault)

\* The state of search before the descent: the entry point and its
\* validated distance (oracle call 1).
DescendStart(entry, query) ==
    [ err |-> Ok, calls |-> 1, asked |-> 0,
      current |-> Unwrap(entry).node,
      current_dist |-> Distance(query, Unwrap(entry).node),
      level |-> Unwrap(entry).level, improved |-> FALSE ]

\* A search that asks the oracle before it looks for the entry point.
SearchEmpty_AsksOracle(fault) ==
    IF CallFails(0, fault)
    THEN [ err |-> ValidateDistance(fault.kind), calls |-> 1, asked |-> 1,
           base |-> None, neighbours |-> << >> ]
    ELSE [ err |-> Ok, calls |-> 1, asked |-> 0, base |-> None, neighbours |-> << >> ]

\* `let Some(entry) = graph.entry() else { return Ok(Vec::new()) }`
SearchEmpty(fault) ==
    [ err |-> Ok, calls |-> 0, asked |-> 0, base |-> None, neighbours |-> << >> ]

\* results.truncate(k) with one element too many left in.
Truncate_OffByOne(list, k) == Take(list, k + 1)

\* results.truncate(k)
Truncate(list, k) == Take(list, k)

\* search::search: [err, calls, asked, base, neighbours]; base is the node
\* the descent ended at (None when there was no descent to end), asked the
\* number of candidates of the oracle call that failed (0: none failed).
Search(nodes, entry, query, k, ef, fault) ==
    IF IsNone(entry)
    THEN SearchEmpty(fault)
    ELSE IF CallFails(0, fault)
    THEN [ err |-> ValidateDistance(fault.kind), calls |-> 1, asked |-> 1,
           base |-> None, neighbours |-> << >> ]
    ELSE With(Descend(DescendStart(entry, query), nodes, query, fault),
              LAMBDA d :
                IF d.err # Ok
                THEN [ err |-> d.err, calls |-> d.calls, asked |-> d.asked,
                       base |-> None, neighbours |-> << >> ]
                ELSE With(SearchLayer(nodes, query, d.current, 0, ef, d.calls, fault),
                          LAMBDA results :
                            [ err |-> results.err, calls |-> results.calls,
                              asked |-> results.asked,
                              base |-> Some(d.current),
                              neighbours |-> Truncate(results.neighbours, k) ]))

\* ------------------------------------------------------------------------
\* DataSource: the pointwise oracle and the default batch_distances
\* ------------------------------------------------------------------------
\* What a data source does with each candidate: it answers, or fails with
\* one of the two DataSourceError variants.
SourceOutcomes == { "finite", "OutOfBounds", "Operation" }
Sources == [ Ids -> SourceOutcomes ]

\* DataSource::distance of a source: Ok(distance) or Err(error); the error
\* carries the candidate it was raised for.
SourceDistance(source, query, candidate) ==
    IF source[candidate] = "finite"
    THEN [ ok |-> TRUE, value |-> Distance(query, candidate) ]
    ELSE [ ok |-> FALSE, error |-> [ kind |-> source[candidate], index |-> candidate ] ]

\* A batch that asks every candidate and reports the last failure.
RECURSIVE CollectDistances_LastError(_, _, _, _)
CollectDistances_LastError(source, query, candidates, from) ==
    IF from > Len(candidates) THEN [ ok |-> TRUE, values |-> << >> ]
    ELSE With(CollectDistances_LastError(source, query, candidates, from + 1),
              LAMBDA rest :
                IF ~rest.ok THEN rest
                ELSE With(SourceDistance(source, query, candidates[from]), LAMBDA d :
                       IF d.ok
                       THEN [ ok |-> TRUE, values |-> << d.value >> \o rest.values ]
                       ELSE d))

\* collect::<Result<Vec<f32>, _>>() over candidates[from ..]: the first Err
\* ends the iteration, later candidates are never asked.
RECURSIVE CollectDistances(_, _, _, _)
CollectDistances(source, query, candidates, from) ==
    IF from > Len(candidates) THEN [ ok |-> TRUE, values |-> << >> ]
    ELSE With(SourceDistance(source, query, candidates[from]), LAMBDA d :
           IF ~d.ok THEN d
           ELSE With(CollectDistances(source, query, candidates, from + 1),
                     LAMBDA rest :
                       IF rest.ok
                       THEN [ ok |-> TRUE, values |-> << d.value >> \o rest.values ]
                       ELSE rest))

\* DataSource::batch_distances, the provided method
BatchDistances(source, query, candidates) ==
    CollectDistances(source, query, candidates, 1)

\* The candidate slices a caller passes, repeated ids included
RECURSIVE SeqsUpTo(_, _)
SeqsUpTo(S, n) ==
    IF n = 0 THEN { << >> }
    ELSE With(SeqsUpTo(S, n - 1), LAMBDA shorter :
              shorter \cup { Append(q, x) : q \in { t \in shorter : Len(t) = n - 1 }, x \in S })

\* ------------------------------------------------------------------------
\* State
\* ------------------------------------------------------------------------
VARIABLES
    params,       \* HnswParams of the index
    nodes,        \* Graph.nodes: the table of Option<Node>
    entry,        \* Graph.entry: Option<EntryPoint>
    len,          \* CpuHnsw.len, the relaxed atomic counter
    attachLevel,  \* history: the level each id was attached with (-1: never)
    okCount,      \* history: per id, the insert calls that returned Ok
    last,         \* history: result of the sequential caller's last call and the
                  \* oracle call that failed in it
    found,        \* history: the sequential caller's last search call and what
                  \* it returned
    batch,        \* history: the last batch_distances call on a data source
                  \* and what it returned
    run,          \* the search call that is followed step by step: its
                  \* position and locals
    rng,          \* CpuHnsw.rng, the Mutex<SmallRng>: the thread holding it,
                  \* 0 if none
    sched,        \* history: the order in which the trim jobs of the last
                  \* insert_node were evaluated and the jobs whose oracle
                  \* batch fails
    writer,       \* graph RwLock: the thread holding it for writing, 0 if none
    readers,      \* graph RwLock: the threads holding it for reading
    pc,           \* per thread: position inside insert / search
    ctx,          \* per thread: NodeContext of the running insert
    local,        \* per thread: plan, PreparedInsertion and trim jobs in hand
    result        \* per thread: what the call returned, and by which path

vars == << params, nodes, entry, len, attachLevel, okCount, last, found, batch, run,
           rng, sched,
           writer, readers, pc, ctx, local, result >>

graphVars == << nodes, entry, attachLevel >>
threadVars == << writer, readers, pc, ctx, local, result >>

LineIds == 0 .. (LineNodes - 1)
AllIds == Ids \cup ConcIds \cup LineIds

NoLocal == [ layers |-> << >>,
             prepared |-> [ node |-> [ node |-> 0, level |-> 0 ],
                            promote_entry |-> FALSE,
                            new_node_neighbours |-> << >>, updates |-> << >> ],
             trim_jobs |-> << >>, trims |-> << >> ]
NoCtx == [ node |-> 0, level |-> 0 ]
NoResult == [ value |-> "none", path |-> "none", fault |-> "none" ]
NoBatch == [ called |-> FALSE, source |-> << >>, query |-> 0, candidates |-> << >>,
             result |-> [ ok |-> TRUE, values |-> << >> ] ]

\* No insert_node has evaluated trim jobs yet.
NoSched == [ node |-> 0, level |-> 0, order |-> << >>, failing |-> { },
             kinds |-> << >> ]

\* No search is being followed.
NoDescent == [ err |-> Ok, calls |-> 0, current |-> 0, current_dist |-> 0,
               level |-> 0, improved |-> FALSE ]
NoLayer == [ err |-> Ok, calls |-> 0, visited |-> { }, broke |-> FALSE,
             candidates |-> << >>, best |-> << >> ]
NoRun == [ phase |-> "none", query |-> 0, k |-> 0, d |-> NoDescent, st |-> NoLayer,
           err |-> Ok, neighbours |-> << >> ]

NoFound == [ query |-> 0, k |-> 0, fault |-> 0, outcome |-> "none", asked |-> 0,
             err |-> "none", calls |-> 0, base |-> None, neighbours |-> << >> ]
NoLast == [ node |-> 0, result |-> "none", fault |-> "none", outcome |-> "finite",
            asked |-> 0 ]

\* HnswParams::new with every field strictly positive.
ParamsChoices ==
    { [ max_level |-> MaxLevel, max_connections |-> MaxConnections,
        ef_construction |-> EfConstruction ] }

\* CpuHnsw::new(params, capacity, seed)
InitWith(p, capacity) ==
    /\ params = p
    /\ nodes = GraphNewNodes(capacity)
    /\ entry = None
    /\ len = 0
    /\ attachLevel = [ i \in AllIds |-> -1 ]
    /\ okCount = [ i \in AllIds |-> 0 ]
    /\ last = NoLast
    /\ found = NoFound
    /\ batch = NoBatch
    /\ run = NoRun
    /\ rng = 0
    /\ sched = NoSched
    /\ writer = 0
    /\ readers = { }
    /\ pc = [ t \in Threads |-> "idle" ]
    /\ ctx = [ t \in Threads |-> NoCtx ]
    /\ local = [ t \in Threads |-> NoLocal ]
    /\ result = [ t \in Threads |-> NoResult ]

\* The capacity hint is either absent or, as in the tests, the number of ids.
Capacities == { 0, NumIds }

Init == \E p \in ParamsChoices : \E capacity \in Capacities : InitWith(p, capacity)

\* The Ok counts after insert(node) returned `err`.
CountOk(counts, node, err) ==
    IF err = Ok THEN [ counts EXCEPT ![node] = @ + 1 ] ELSE counts

\* The ids whose insert returned Ok, and the number of such calls.
OkIds == { i \in AllIds : okCount[i] > 0 }
RECURSIVE SumUpTo(_, _)
SumUpTo(f, n) == IF n < 0 THEN 0 ELSE f[n] + SumUpTo(f, n - 1)
OkTotal == SumUpTo(okCount, Max(NumIds, NumInserters) - 1)

\* The attach levels after a step that turned `before` into `after`.
AttachLevels(levels, before, after, level) ==
    [ i \in AllIds |->
        IF Attached(after, i) /\ ~Attached(before, i) THEN level ELSE levels[i] ]

\* ------------------------------------------------------------------------
\* Sequential caller: one whole CpuHnsw::insert call per step.
\* sample_level yields any level in 0 ..= max_level.
\* ------------------------------------------------------------------------
\* sample_level whose loop flips once more at max_level.
SampleLevels_Uncapped(p) == 0 .. (p.max_level + 1)

SampleLevels(p) == 0 .. p.max_level

\* The outcomes drawn for the oracle call that fails: none when no call
\* fails, and two answers only from a call that asks for two distances.
FaultKinds(stage, asked) ==
    IF stage = "none" THEN { NoFault.kind }
    ELSE IF asked >= 2 THEN OracleFaults \cup MixedOutcomes
    ELSE OracleFaults

Insert(node, level, stage) ==
    LET c == [ node |-> node, level |-> level ]
        done(err, nodes2, entry2, len2, outcome, asked) ==
            /\ nodes' = nodes2
            /\ entry' = entry2
            /\ len' = len2
            /\ attachLevel' = AttachLevels(attachLevel, nodes, nodes2, level)
            /\ okCount' = CountOk(okCount, node, err)
            /\ last' = [ node |-> node, result |-> err, fault |-> stage,
                         outcome |-> outcome, asked |-> asked ]
    IN  /\ level \in SampleLevels(params)
        /\ IF IsNone(entry)
           THEN \* bootstrap: validate_distance(node, node), then insert_first
                /\ stage \in { "none", "self" }
                /\ IF stage = "self"
                   THEN \E kind \in FaultKinds(stage, 1) :
                            done(ValidateDistance(kind), nodes, entry, len, kind, 1)
                   ELSE \E first \in { InsertFirst(nodes, entry, params.max_level, c) } :
                            done(first.err, first.nodes, first.entry,
                                 IF first.err = Ok THEN 1 ELSE len, NoFault.kind, 0)
           ELSE \* general path: insert_node; a faulty oracle outcome is drawn
                \* only for an oracle call that insert_node makes on this graph
                /\ stage \in { "none", "plan", "trim" }
                /\ InsertNodeFaultReached(nodes, entry, params, c,
                                          [ stage |-> stage, kind |-> NoFault.kind ])
                /\ \E asked \in { FailingCallSize(nodes, entry, params, c, stage) } :
                   \E kind \in FaultKinds(stage, asked) :
                     \E r \in { InsertNode(nodes, entry, params, c,
                                            [ stage |-> stage, kind |-> kind ]) } :
                        done(r.err, r.nodes, r.entry,
                             IF r.err = Ok THEN len + 1 ELSE len, kind, asked)
        /\ UNCHANGED << params, run, rng, sched, found, batch, threadVars >>

FaultStages == { "none", "self", "plan", "trim" }

Next ==
    \E node \in Ids : \E level \in 0 .. MaxLevel : \E stage \in FaultStages :
        Insert(node, level, stage)

Spec == Init /\ [][Next]_vars

\* ------------------------------------------------------------------------
\* Sequential caller that builds the index and then queries it once: one
\* whole CpuHnsw::search call per step.
\* ------------------------------------------------------------------------
\* read_graph(|graph| search::search(graph, ..)): the search runs on a
\* shared reference.  The outcome of the oracle call that fails is drawn
\* here; two answers are drawn only for a call that asks for two distances.
CpuHnswSearch(query, k, call) ==
    /\ \E kind \in IF call = NoSearchFault.call THEN { NoSearchFault.kind }
                   ELSE OracleFaults \cup MixedOutcomes :
         \E r \in { Search(nodes, entry, query, k, params.ef_construction,
                            [ call |-> call, kind |-> kind ]) } :
            /\ kind \in MixedOutcomes => r.asked >= 2
            /\ found' = [ query |-> query, k |-> k, fault |-> call,
                          outcome |-> IF call # 0 /\ r.calls >= call
                                      THEN kind ELSE NoSearchFault.kind,
                          asked |-> r.asked,
                          err |-> r.err, calls |-> r.calls, base |-> r.base,
                          neighbours |-> r.neighbours ]
    /\ UNCHANGED << params, run, rng, sched, batch, graphVars, len, okCount, last, threadVars >>

\* The index is still being built: no search has been made yet.
Building == found = NoFound

NextSearch ==
    \/ \E node \in Ids : \E level \in 0 .. MaxLevel : \E stage \in FaultStages :
            Building /\ Insert(node, level, stage)
    \/ \E query \in Ids : \E k \in 0 .. MaxK : \E call \in 0 .. MaxFaultCall :
            Building /\ CpuHnswSearch(query, k, call)

SpecSearch == Init /\ [][NextSearch]_vars

\* ------------------------------------------------------------------------
\* The test builds_and_searches: nodes 0 .. 4 inserted in index order at
\* whatever levels sample_level draws, then search(0, 3).
\* ------------------------------------------------------------------------
LineParams ==
    { [ max_level |-> LineMaxLevel, max_connections |-> LineMaxConnections,
        ef_construction |-> ef ] : ef \in { LineEf, LineEfNarrow } }

InitLine == \E p \in LineParams : InitWith(p, LineNodes)

LineInsert(level) ==
    /\ Building
    /\ len < LineNodes
    /\ Insert(len, level, NoFault.stage)

LineSearch ==
    /\ Building
    /\ len = LineNodes
    /\ CpuHnswSearch(LineQuery, LineK, NoSearchFault.call)

NextLine ==
    \/ \E level \in 0 .. LineMaxLevel : LineInsert(level)
    \/ LineSearch

SpecLine == InitLine /\ [][NextLine]_vars

\* ------------------------------------------------------------------------
\* The line scenario with its search followed step by step: one pass of a
\* loop of search::search or search_layer per step, for any query on the
\* line, at any point of the build.  The oracle answers every call, so the
\* number of calls made is not kept.
\* ------------------------------------------------------------------------
Uncounted(rec) == [ rec EXCEPT !.calls = 0 ]

WalkInsert(level) ==
    /\ run = NoRun
    /\ LineInsert(level)

\* search(query, k, source) up to the descent loop
WalkStart(query) ==
    /\ Building
    /\ run = NoRun
    /\ run' = IF IsNone(entry)
              THEN [ NoRun EXCEPT !.phase = "done", !.query = query, !.k = LineK ]
              ELSE [ NoRun EXCEPT !.phase = "descend", !.query = query, !.k = LineK,
                                  !.d = Uncounted(DescendStart(entry, query)) ]
    /\ UNCHANGED << params, rng, sched, found, batch, graphVars, len, okCount, last, threadVars >>

\* one pass of the descent loop
WalkDescend ==
    /\ run.phase = "descend"
    /\ ~DescendDone(run.d)
    /\ run' = [ run EXCEPT !.d = Uncounted(DescendStep(run.d, nodes, run.query,
                                                       NoSearchFault)) ]
    /\ UNCHANGED << params, rng, sched, found, batch, graphVars, len, okCount, last, threadVars >>

\* the descent loop is left: search_layer starts at layer 0, or the
\* descent's error is returned
WalkBase ==
    /\ run.phase = "descend"
    /\ DescendDone(run.d)
    /\ run' = IF run.d.err # Ok
              THEN [ run EXCEPT !.phase = "done", !.err = run.d.err ]
              ELSE [ run EXCEPT !.phase = "expand",
                                !.st = Uncounted(SearchLayerStart(run.query,
                                                                  run.d.current, 0)) ]
    /\ UNCHANGED << params, rng, sched, found, batch, graphVars, len, okCount, last, threadVars >>

\* one pass of the loop of search_layer
WalkExpand ==
    /\ run.phase = "expand"
    /\ ~SearchLayerDone(run.st)
    /\ run' = [ run EXCEPT !.st = Uncounted(SearchLayerStep(run.st, nodes, run.query, 0,
                                                            params.ef_construction,
                                                            NoSearchFault)) ]
    /\ UNCHANGED << params, rng, sched, found, batch, graphVars, len, okCount, last, threadVars >>

\* the loop of search_layer is left: sort, truncate(k), return
WalkReturn ==
    /\ run.phase = "expand"
    /\ SearchLayerDone(run.st)
    /\ run' = [ run EXCEPT !.phase = "done", !.err = run.st.err,
                           !.neighbours = IF run.st.err = Ok
                                          THEN Truncate(SortNeighbours(run.st.best),
                                                        run.k)
                                          ELSE << >> ]
    /\ UNCHANGED << params, rng, sched, found, batch, graphVars, len, okCount, last, threadVars >>

NextWalk ==
    \/ \E level \in 0 .. LineMaxLevel : WalkInsert(level)
    \/ \E query \in LineIds : WalkStart(query)
    \/ WalkDescend
    \/ WalkBase
    \/ WalkExpand
    \/ WalkReturn

SpecWalk == InitLine /\ [][NextWalk]_vars

\* The thread that runs the search keeps running it.
SpecWalkFair ==
    /\ SpecWalk
    /\ WF_vars(WalkDescend) /\ WF_vars(WalkBase)
    /\ WF_vars(WalkExpand) /\ WF_vars(WalkReturn)

\* ------------------------------------------------------------------------
\* A caller of batch_distances on a data source that does not override it
\* ------------------------------------------------------------------------
BatchCall(source, query, candidates) ==
    /\ batch' = [ called |-> TRUE, source |-> source, query |-> query,
                  candidates |-> candidates,
                  result |-> BatchDistances(source, query, candidates) ]
    /\ UNCHANGED << params, run, rng, sched, found, nodes, entry, attachLevel, len, okCount, last,
                    threadVars >>

\* One call per behaviour: the method keeps no state between calls.
NextBatch ==
    /\ ~batch.called
    /\ \E source \in Sources : \E query \in Ids :
         \E candidates \in SeqsUpTo(Ids, MaxBatch) :
            BatchCall(source, query, candidates)

SpecBatch == Init /\ [][NextBatch]_vars

\* ------------------------------------------------------------------------
\* The same index and line, built by inserting the five nodes in any order.
\* ------------------------------------------------------------------------
OrderInsert(node, level) ==
    /\ Building
    /\ ~Attached(nodes, node)
    /\ Insert(node, level, NoFault.stage)

NextOrders == \E node \in LineIds : \E level \in 0 .. LineMaxLevel : OrderInsert(node, level)

SpecOrders == InitLine /\ [][NextOrders]_vars

\* ------------------------------------------------------------------------
\* The points of the line inserted in index order by a caller that goes on
\* to the next id when an insert fails (any oracle call of an insert may
\* fail), and that queries the index once, at any point of the build.
\* ------------------------------------------------------------------------
\* The id of the next insert call: one past the id of the last call.
NextId == IF last = NoLast THEN 0 ELSE last.node + 1

FaultyInsert(level, stage) ==
    /\ Building
    /\ NextId < LineNodes
    /\ Insert(NextId, level, stage)

FaultySearch(query) ==
    /\ Building
    /\ CpuHnswSearch(query, LineK, NoSearchFault.call)

NextFaulty ==
    \/ \E level \in 0 .. LineMaxLevel : \E stage \in FaultStages :
            FaultyInsert(level, stage)
    \/ \E query \in LineIds : FaultySearch(query)

SpecFaulty == InitLine /\ [][NextFaulty]_vars

\* ------------------------------------------------------------------------
\* Concurrent callers: CpuHnsw::insert and CpuHnsw::search step by step.
\* A step is one access to shared state: a closure run under the graph
\* lock with no oracle call in it, one stage of insert_node (the write lock
\* is taken by the first stage and released by the last), one oracle call
\* outside the lock, or one access to the atomic counter.
\* ------------------------------------------------------------------------
\* RwLock::read is granted when no writer holds the lock.
CanRead(w, r) == w = 0
\* A write lock that does not wait for the readers.
CanWrite_IgnoresReaders(w, r) == w = 0

\* RwLock::write is granted when nobody holds the lock.
CanWrite(w, r) == w = 0 /\ r = { }

\* insert without the re-check under the write lock.
BootstrapLost_NoRecheck(e) == FALSE

\* insert's re-check under the write lock: another thread completed the
\* bootstrap in the meantime.
BootstrapLost(e) == IsSome(e)

Return(t, value, stage) ==
    /\ pc' = [ pc EXCEPT ![t] = "done" ]
    /\ result' = [ result EXCEPT ![t].value = value, ![t].fault = stage ]
    /\ local' = [ local EXCEPT ![t] = NoLocal ]

\* insert(node, source): sample_level, build the NodeContext.
InsertCall(t, level) ==
    /\ t \in Inserters
    /\ pc[t] = "idle"
    /\ level \in SampleLevels(params)
    /\ ctx' = [ ctx EXCEPT ![t] = [ node |-> t - 1, level |-> level ] ]
    /\ result' = [ result EXCEPT ![t] = NoResult ]
    /\ pc' = [ pc EXCEPT ![t] = "check" ]
    /\ UNCHANGED << params, run, rng, sched, found, batch, graphVars, len, okCount, last, writer, readers, local >>

\* read_graph(|graph| graph.entry().is_some())
CheckEntry(t) ==
    /\ pc[t] = "check"
    /\ CanRead(writer, readers)
    /\ pc' = [ pc EXCEPT ![t] = IF IsSome(entry) THEN "general" ELSE "validate" ]
    /\ result' = [ result EXCEPT ![t].path = IF IsSome(entry) THEN "general" ELSE "race" ]
    /\ UNCHANGED << params, run, rng, sched, found, batch, graphVars, len, okCount, last, writer, readers,
                    ctx, local >>

\* validate_distance(source, node, node), outside the lock
ValidateSelf(t) ==
    /\ pc[t] = "validate"
    /\ \/ /\ pc' = [ pc EXCEPT ![t] = "bootstrap" ]
          /\ UNCHANGED << result, local >>
       \/ \E kind \in OracleFaults : Return(t, ValidateDistance(kind), "self")
    /\ UNCHANGED << params, run, rng, sched, found, batch, graphVars, len, okCount, last, writer, readers,
                    ctx >>

\* write_graph(|graph| { if entry.is_some() { false } else { insert_first } })
Bootstrap(t) ==
    /\ pc[t] = "bootstrap"
    /\ CanWrite(writer, readers)
    /\ IF BootstrapLost(entry)
       THEN /\ pc' = [ pc EXCEPT ![t] = "general" ]
            /\ result' = [ result EXCEPT ![t].path = "fallback" ]
            /\ UNCHANGED << graphVars, local >>
       ELSE \E first \in { InsertFirst(nodes, entry, params.max_level, ctx[t]) } :
                /\ nodes' = first.nodes
                /\ entry' = first.entry
                /\ attachLevel' = AttachLevels(attachLevel, nodes, first.nodes,
                                               ctx[t].level)
                /\ IF first.err = Ok
                   THEN /\ pc' = [ pc EXCEPT ![t] = "store" ]
                        /\ result' = [ result EXCEPT ![t].path = "first" ]
                        /\ UNCHANGED local
                   ELSE Return(t, first.err, "none")
    /\ UNCHANGED << params, run, rng, sched, found, batch, len, okCount, last, writer, readers, ctx >>

\* self.len.store(1, Relaxed); return Ok(())
StoreLen(t) ==
    /\ pc[t] = "store"
    /\ len' = 1
    /\ okCount' = CountOk(okCount, ctx[t].node, Ok)
    /\ Return(t, Ok, "none")
    /\ UNCHANGED << params, run, rng, sched, found, batch, graphVars, last, writer, readers, ctx >>

\* write_graph(|graph| graph.insert_node(..)): take the write lock and run
\* plan_insertion (its oracle batch may fail).
Plan(t) ==
    /\ pc[t] = "general"
    /\ CanWrite(writer, readers)
    /\ IF IsNone(entry)
       THEN /\ Return(t, InvalidNoEntry, "none")
            /\ UNCHANGED writer
       ELSE \/ /\ PlanCallsOracle(nodes, entry, ctx[t])
               /\ \E asked \in { Len(CandidateIds(nodes, ctx[t].node)) } :
                  \E kind \in FaultKinds("plan", asked) :
                     Return(t, ValidateBatchDistances(kind, asked), "plan")
               /\ UNCHANGED writer
            \/ \E plan \in { PlanInsertion(nodes, entry, params.max_connections,
                                             ctx[t]) } :
                   /\ writer' = t
                   /\ local' = [ local EXCEPT ![t].layers =
                                    TakeForLevel(plan.layers, ctx[t].level) ]
                   /\ pc' = [ pc EXCEPT ![t] = "apply" ]
                   /\ UNCHANGED result
    /\ UNCHANGED << params, run, rng, sched, found, batch, graphVars, len, okCount, last, readers, ctx >>

\* apply_insertion under the write lock
Apply(t) ==
    /\ pc[t] = "apply"
    /\ \E applied \in { ApplyInsertion(nodes, entry, params.max_level,
                                        params.max_connections, ctx[t],
                                        local[t].layers) } :
           /\ nodes' = applied.nodes
           /\ attachLevel' = AttachLevels(attachLevel, nodes, applied.nodes,
                                          ctx[t].level)
           /\ IF applied.err # Ok
              THEN /\ Return(t, applied.err, "none")
                   /\ writer' = 0
              ELSE /\ local' = [ local EXCEPT ![t].prepared = applied.prepared,
                                              ![t].trim_jobs = applied.trim_jobs ]
                   /\ pc' = [ pc EXCEPT ![t] = "trim" ]
                   /\ UNCHANGED << result, writer >>
    /\ UNCHANGED << params, run, rng, sched, found, batch, entry, len, okCount, last, readers, ctx >>

\* the parallel map over the trim jobs, collected into one Result
Trim(t) ==
    /\ pc[t] = "trim"
    /\ \/ /\ local[t].trim_jobs # << >>
          /\ \E asked \in { Len(local[t].trim_jobs[1].candidates) } :
             \E kind \in FaultKinds("trim", asked) :
                Return(t, ValidateBatchDistances(kind, asked), "trim")
          /\ writer' = 0
       \/ /\ local' = [ local EXCEPT ![t].trims =
                            EvaluateTrims(local[t].trim_jobs, ctx[t].node) ]
          /\ pc' = [ pc EXCEPT ![t] = "commit" ]
          /\ UNCHANGED << result, writer >>
    /\ UNCHANGED << params, run, rng, sched, found, batch, graphVars, len, okCount, last, readers, ctx >>

\* commit_insertion, then the write lock is released
Commit(t) ==
    /\ pc[t] = "commit"
    /\ \E committed \in { CommitInsertion(nodes, entry, local[t].prepared,
                                           local[t].trims) } :
           /\ nodes' = committed.nodes
           /\ entry' = committed.entry
           /\ IF committed.err = Ok
              THEN /\ pc' = [ pc EXCEPT ![t] = "count" ]
                   /\ local' = [ local EXCEPT ![t] = NoLocal ]
                   /\ UNCHANGED result
              ELSE Return(t, committed.err, "none")
    /\ writer' = 0
    /\ UNCHANGED << params, run, rng, sched, found, batch, attachLevel, len, okCount, last, readers, ctx >>

\* self.len.fetch_add(1, Relaxed); return Ok(())
FetchAdd(t) ==
    /\ pc[t] = "count"
    /\ len' = len + 1
    /\ okCount' = CountOk(okCount, ctx[t].node, Ok)
    /\ Return(t, Ok, "none")
    /\ UNCHANGED << params, run, rng, sched, found, batch, graphVars, last, writer, readers, ctx >>

\* search(query, k, source): the call, before the read lock is granted
SearchCall(t) ==
    /\ t \in Searchers
    /\ pc[t] = "idle"
    /\ result' = [ result EXCEPT ![t] = [ NoResult EXCEPT !.path = "search" ] ]
    /\ pc' = [ pc EXCEPT ![t] = "search" ]
    /\ UNCHANGED << params, run, rng, sched, found, batch, graphVars, len, okCount, last, writer, readers,
                    ctx, local >>

\* read_graph: the read lock is granted and search::search starts
SearchBegin(t) ==
    /\ pc[t] = "search"
    /\ CanRead(writer, readers)
    /\ readers' = readers \cup { t }
    /\ pc' = [ pc EXCEPT ![t] = "searching" ]
    /\ UNCHANGED << params, run, rng, sched, found, batch, graphVars, len, okCount, last, writer, ctx, local,
                    result >>

\* search::search returns and the read guard is dropped
SearchEnd(t) ==
    /\ pc[t] = "searching"
    /\ readers' = readers \ { t }
    /\ pc' = [ pc EXCEPT ![t] = "done" ]
    /\ UNCHANGED << params, run, rng, sched, found, batch, graphVars, len, okCount, last, writer, ctx, local,
                    result >>

NextConc ==
    \E t \in Threads :
        \/ \E level \in 0 .. MaxLevel : InsertCall(t, level)
        \/ CheckEntry(t)
        \/ ValidateSelf(t)
        \/ Bootstrap(t)
        \/ StoreLen(t)
        \/ Plan(t)
        \/ Apply(t)
        \/ Trim(t)
        \/ Commit(t)
        \/ FetchAdd(t)
        \/ SearchCall(t)
        \/ SearchBegin(t)
        \/ SearchEnd(t)

\* The concurrent callers share an index built without a capacity hint.
InitConc == \E p \in ParamsChoices : InitWith(p, 0)

SpecConc == InitConc /\ [][NextConc]_vars

\* ------------------------------------------------------------------------
\* Concurrent callers with the RNG mutex: sample_level locks CpuHnsw.rng,
\* draws the level and drops the guard when it returns.
\* ------------------------------------------------------------------------
\* sample_level that returns with the guard still held.
RngRelease_Held(t) == t

\* The MutexGuard goes out of scope at the end of sample_level.
RngRelease(t) == 0

\* insert(node, source) -> sample_level: self.rng.lock() is granted
RngLock(t) ==
    /\ t \in Inserters
    /\ pc[t] = "idle"
    /\ rng = 0
    /\ rng' = t
    /\ pc' = [ pc EXCEPT ![t] = "sample" ]
    /\ UNCHANGED << params, run, sched, found, batch, graphVars, len, okCount, last,
                    writer, readers, ctx, local, result >>

\* the coin flips of sample_level, its return, and the NodeContext
SampleLevel(t, level) ==
    /\ pc[t] = "sample"
    /\ level \in SampleLevels(params)
    /\ rng' = RngRelease(t)
    /\ ctx' = [ ctx EXCEPT ![t] = [ node |-> t - 1, level |-> level ] ]
    /\ result' = [ result EXCEPT ![t] = NoResult ]
    /\ pc' = [ pc EXCEPT ![t] = "check" ]
    /\ UNCHANGED << params, run, sched, found, batch, graphVars, len, okCount, last,
                    writer, readers, local >>

NextLocks ==
    \E t \in Threads :
        \/ RngLock(t)
        \/ \E level \in 0 .. (MaxLevel + 1) : SampleLevel(t, level)
        \/ CheckEntry(t)
        \/ ValidateSelf(t)
        \/ Bootstrap(t)
        \/ StoreLen(t)
        \/ Plan(t)
        \/ Apply(t)
        \/ Trim(t)
        \/ Commit(t)
        \/ FetchAdd(t)
        \/ SearchCall(t)
        \/ SearchBegin(t)
        \/ SearchEnd(t)

SpecLocks == InitConc /\ [][NextLocks]_vars

\* ------------------------------------------------------------------------
\* One caller whose insert calls are followed step by step: the steps of
\* CpuHnsw::insert above, taken by a single thread, call after call.
\* ------------------------------------------------------------------------
Caller == 1

StepCall(node, level) ==
    /\ pc[Caller] \in { "idle", "done" }
    /\ level \in SampleLevels(params)
    /\ ctx' = [ ctx EXCEPT ![Caller] = [ node |-> node, level |-> level ] ]
    /\ result' = [ result EXCEPT ![Caller] = NoResult ]
    /\ pc' = [ pc EXCEPT ![Caller] = "check" ]
    /\ UNCHANGED << params, run, rng, sched, found, batch, graphVars, len, okCount, last, writer, readers, local >>

NextSteps ==
    \/ \E node \in Ids : \E level \in 0 .. MaxLevel : StepCall(node, level)
    \/ CheckEntry(Caller)
    \/ ValidateSelf(Caller)
    \/ Bootstrap(Caller)
    \/ StoreLen(Caller)
    \/ Plan(Caller)
    \/ Apply(Caller)
    \/ Trim(Caller)
    \/ Commit(Caller)
    \/ FetchAdd(Caller)

SpecSteps == Init /\ [][NextSteps]_vars

\* ------------------------------------------------------------------------
\* Graph::attach_node called directly, as the unit tests call it, on a graph
\* built by inserts: any id up to one past the capacity hint, any level up
\* to one above max_level.  One call per behaviour.
\* ------------------------------------------------------------------------
AttachIds == 0 .. NumIds
AttachLevelChoices == 0 .. (MaxLevel + 1)

AttachCall(node, level) ==
    /\ \E attached \in { AttachNode(nodes, params.max_level, node, level) } :
         /\ nodes' = attached.nodes
         /\ attachLevel' = AttachLevels(attachLevel, nodes, attached.nodes, level)
         /\ result' = [ result EXCEPT ![Caller] =
                          [ value |-> attached.err, path |-> "attach_node",
                            fault |-> "none" ] ]
    /\ ctx' = [ ctx EXCEPT ![Caller] = [ node |-> node, level |-> level ] ]
    /\ pc' = [ pc EXCEPT ![Caller] = "done" ]
    /\ UNCHANGED << params, run, rng, sched, found, batch, entry, len, okCount, last, writer,
                    readers, local >>

NextAttach ==
    /\ pc[Caller] = "idle"
    /\ \/ \E node \in Ids : \E level \in 0 .. MaxLevel : \E stage \in FaultStages :
            Insert(node, level, stage)
       \/ \E node \in AttachIds : \E level \in AttachLevelChoices :
            AttachCall(node, level)

SpecAttach == Init /\ [][NextAttach]_vars

\* ------------------------------------------------------------------------
\* A caller whose inserts run insert_node under every schedule of its trim
\* jobs and every set of failing jobs.
\* ------------------------------------------------------------------------
\* CpuHnsw::insert on an index that has an entry point
ScheduledInsert(node, level, order, failing, kinds) ==
    /\ \E r \in { InsertNodeScheduled(nodes, entry, params,
                                      [ node |-> node, level |-> level ],
                                      order, failing, kinds) } :
         /\ nodes' = r.nodes
         /\ entry' = r.entry
         /\ len' = IF r.err = Ok THEN len + 1 ELSE len
         /\ attachLevel' = AttachLevels(attachLevel, nodes, r.nodes, level)
         /\ okCount' = CountOk(okCount, node, r.err)
         /\ \E asked \in { FailingCallSize(nodes, entry, params,
                                             [ node |-> node, level |-> level ],
                                             "trim") } :
            \E kind \in { IF failing = { } THEN NoFault.kind
                          ELSE kinds[order[CHOOSE n \in 1 .. Len(order) :
                                        /\ order[n] \in failing
                                        /\ \A m \in 1 .. (n - 1) :
                                               order[m] \notin failing]] } :
              last' = IF failing # { } /\ r.err = ValidateBatchDistances(kind, asked)
                      THEN [ node |-> node, result |-> r.err, fault |-> "trim",
                             outcome |-> kind, asked |-> asked ]
                      ELSE [ node |-> node, result |-> r.err, fault |-> "none",
                             outcome |-> NoFault.kind, asked |-> 0 ]
    /\ sched' = [ node |-> node, level |-> level, order |-> order,
                  failing |-> failing, kinds |-> kinds ]
    /\ UNCHANGED << params, run, rng, found, batch, threadVars >>

\* The bootstrap insert, then inserts under every schedule of their trim
\* jobs, each failing job with an outcome of its own.
NextTrims ==
    \/ /\ IsNone(entry)
       /\ \E node \in Ids : \E level \in 0 .. MaxLevel :
            Insert(node, level, NoFault.stage)
    \/ /\ IsSome(entry)
       /\ \E node \in Ids : \E level \in 0 .. MaxLevel :
          \E jobs \in { TrimJobsOf(nodes, entry, params,
                                   [ node |-> node, level |-> level ]) } :
          \E order \in Schedules(Len(jobs)) : \E failing \in SUBSET (1 .. Len(jobs)) :
          \E kinds \in [ failing -> OracleFaults \cup MixedOutcomes ] :
            ScheduledInsert(node, level, order, failing, kinds)

SpecTrims == Init /\ [][NextTrims]_vars

\* ------------------------------------------------------------------------
\* The sequential caller on an index built with max_connections or with one
\* more connection per node: with the former an insert trims full neighbour
\* lists, with the latter a search expands nodes with several neighbours
\* and asks the oracle for several distances in one batch.  The build ends
\* with the search, or with an insert whose trim jobs run in parallel and
\* some of whose batches the oracle fails.
\* ------------------------------------------------------------------------
NextWide ==
    \/ /\ sched = NoSched
       /\ Building
       /\ \E node \in Ids : \E level \in 0 .. MaxLevel : \E stage \in FaultStages :
            Insert(node, level, stage)
    \/ /\ sched = NoSched
       /\ Building
       /\ \E query \in Ids : \E k \in 0 .. MaxK : \E call \in 0 .. MaxFaultCall :
            CpuHnswSearch(query, k, call)
    \/ /\ sched = NoSched
       /\ Building
       /\ IsSome(entry)
       /\ \E node \in Ids : \E level \in 0 .. MaxLevel :
          \E jobs \in { TrimJobsOf(nodes, entry, params,
                                   [ node |-> node, level |-> level ]) } :
          \E order \in Schedules(Len(jobs)) :
          \E failing \in (SUBSET (1 .. Len(jobs))) \ { { } } :
          \E kinds \in [ failing -> OracleFaults \cup MixedOutcomes ] :
            ScheduledInsert(node, level, order, failing, kinds)

SpecWide ==
    /\ \E p \in ParamsChoices \cup
                { [ q EXCEPT !.max_connections = @ + 1 ] : q \in ParamsChoices } :
          \E capacity \in Capacities : InitWith(p, capacity)
    /\ [][NextWide]_vars

\* ------------------------------------------------------------------------
\* Observations of the graph used by the properties
\* ------------------------------------------------------------------------
Layers == 0 .. MaxLevel

\* Neighbour list of id at layer L (empty when the id is not attached).
ListOf(table, id, L) ==
    IF Attached(table, id) THEN Neighbours(Unwrap(GraphNode(table, id)), L) ELSE << >>

\* Same attached ids, same neighbour list for every (node, layer), same
\* entry point.
SameGraph(nodes1, entry1, nodes2, entry2) ==
    /\ AttachedIds(nodes1) = AttachedIds(nodes2)
    /\ \A i \in AttachedIds(nodes1) : \A L \in Layers :
            ListOf(nodes1, i, L) = ListOf(nodes2, i, L)
    /\ entry1 = entry2

OracleErrors == { ValidateOutcome(kind) : kind \in OracleFaults }
ParameterErrors == { InvalidNonFinite, InvalidLevel, InvalidHasEntry, InvalidNoEntry }

\* ------------------------------------------------------------------------
\* Properties of the sequential caller (Spec)
\* ------------------------------------------------------------------------

\* C1: an insert that fails with an oracle error or an InvalidParameters
\* error leaves the attached ids, every neighbour list and the entry point
\* as they were before the call.
C1_FailedInsertLeavesGraph ==
    [][ last'.result \in (OracleErrors \cup ParameterErrors)
            => SameGraph(nodes, entry, nodes', entry') ]_vars

\* C2: degree bound: every neighbour list of every attached node, at every
\* layer, holds at most max_connections ids.
C2_DegreeBound ==
    \A i \in AttachedIds(nodes) : \A L \in Layers :
        Len(ListOf(nodes, i, L)) <= params.max_connections

\* C2 witness: enough successful insertions that some existing node's list
\* overflowed and was trimmed back to a full list.
C2_Witness ==
    /\ last.result = Ok
    /\ Cardinality(OkIds) >= params.max_connections + 2
    /\ \E i \in OkIds : Len(ListOf(nodes, i, 0)) = params.max_connections

\* C6 as claimed: insert(n) of an attached id n returns DuplicateNode
\* whatever the oracle does, and leaves the graph as it was.
C6_DuplicateAlwaysRejected ==
    [][ Attached(nodes, last'.node)
            => /\ last'.result = DuplicateNode
               /\ SameGraph(nodes, entry, nodes', entry') ]_vars

\* C6 amended: insert(n) of an attached id n leaves the graph as it was and
\* returns DuplicateNode, unless the oracle fails on the planning scan's
\* batch, in which case it returns that oracle (or non-finite) error.
C6_DuplicateRejected ==
    [][ Attached(nodes, last'.node)
            => /\ SameGraph(nodes, entry, nodes', entry')
               /\ IF last'.fault = "plan"
                  THEN last'.result \in OracleErrors
                  ELSE last'.result = DuplicateNode ]_vars

\* C6 witness: a duplicate insertion was rejected in a graph with several
\* nodes (so the planning scan did call the oracle).
C6_Witness ==
    /\ last.result = DuplicateNode
    /\ Attached(nodes, last.node)
    /\ Cardinality(AttachedIds(nodes)) >= 2

\* C7: when an entry point is set, its node is attached and its level is at
\* least the attach level of every node in the table.
C7_EntryPointInvariant ==
    IsSome(entry) =>
        /\ Attached(nodes, Unwrap(entry).node)
        /\ \A i \in AttachedIds(nodes) : attachLevel[i] <= Unwrap(entry).level

\* C8: layer participation: every id in a list at layer L was attached with
\* level >= L, and a node holds a non-empty list at L only if it was
\* attached with level >= L.
C8_LayerParticipation ==
    \A i \in AttachedIds(nodes) : \A L \in Layers :
        /\ \A j \in Range(ListOf(nodes, i, L)) :
                Attached(nodes, j) /\ attachLevel[j] >= L
        /\ ListOf(nodes, i, L) # << >> => attachLevel[i] >= L

\* C9: no self-loops: no attached node appears in any of its own lists.
C9_NoSelfLoops ==
    \A i \in AttachedIds(nodes) : \A L \in Layers :
        ~Contains(ListOf(nodes, i, L), i)

\* C9 witness: reverse edges have been committed: two attached nodes list
\* each other at layer 0.
C9_Witness ==
    \E i, j \in AttachedIds(nodes) :
        /\ i # j
        /\ Contains(ListOf(nodes, i, 0), j)
        /\ Contains(ListOf(nodes, j, 0), i)

\* C10: entry-point monotonicity: once set, the entry point is never
\* cleared and its level never decreases from one state to the next.
C10_EntryMonotonic ==
    [][ IsSome(entry)
            => IsSome(entry') /\ Unwrap(entry').level >= Unwrap(entry).level ]_vars

\* C10 witness: the entry point sits above a node attached at a lower
\* level after several successful insertions.
C10_Witness ==
    /\ IsSome(entry)
    /\ Unwrap(entry).level >= 1
    /\ Cardinality(OkIds) >= 2
    /\ \E i \in OkIds : attachLevel[i] < Unwrap(entry).level

\* C11: when a trim job's distance computation fails, insert returns that
\* error and commit_insertion has not run: the entry point and every list
\* of every node attached before the call are as they were, and the new
\* node holds no neighbour at any layer.
C11_TrimFailureAborts ==
    [][ last'.fault = "trim"
            => /\ last'.outcome \in (OracleFaults \cup MixedOutcomes)
               /\ last'.result = ValidateBatchDistances(last'.outcome, last'.asked)
               /\ last'.result \in (OracleErrors \cup { InvalidNonFinite })
               /\ entry' = entry
               /\ \A i \in AttachedIds(nodes) : \A L \in Layers :
                      ListOf(nodes', i, L) = ListOf(nodes, i, L)
               /\ \A L \in Layers : ListOf(nodes', last'.node, L) = << >> ]_vars

\* C11 witness: an insert has failed in a trim job, on a graph with enough
\* nodes for a neighbour's list to overflow.
C11_Witness ==
    /\ last.fault = "trim"
    /\ last.result \in OracleErrors
    /\ Cardinality(AttachedIds(nodes)) >= params.max_connections + 2

\* C23: a successful insertion of N at level l into a graph whose entry
\* point is (e, le) makes the entry point (N, l) when l > le and leaves it
\* (e, le) otherwise, a tie included.
C23_PromotionRule ==
    [][ (last' # last /\ last'.result = Ok /\ IsSome(entry)) =>
          entry' = IF attachLevel'[last'.node] > Unwrap(entry).level
                   THEN Some([ node |-> last'.node,
                               level |-> attachLevel'[last'.node] ])
                   ELSE entry ]_vars

\* C23 witness: the last insert succeeded at the entry point's level, above
\* layer 0, and the entry point is another node.
C23_Witness ==
    /\ last.result = Ok
    /\ IsSome(entry)
    /\ Unwrap(entry).node # last.node
    /\ Unwrap(entry).level > 0
    /\ attachLevel[last.node] = Unwrap(entry).level

\* ------------------------------------------------------------------------
\* Properties of the concurrent callers (SpecConc)
\* ------------------------------------------------------------------------
\* The threads inside the plan / apply / trim / commit sequence of
\* insert_node (Plan takes the write lock and moves the thread to "apply").
InsideInsertion == { t \in Threads : pc[t] \in { "apply", "trim", "commit" } }
InsertInProgress == \E t \in Inserters : pc[t] \notin { "idle", "done" }

\* C3: insertions are atomic: at most one insert is inside its sequence at
\* a time, and no search holds the graph while one is, so a search only
\* ever reads a graph that is between two complete insertions.
C3_InsertionsAtomic ==
    /\ Cardinality(InsideInsertion) <= 1
    /\ InsideInsertion # { } => \A u \in Threads : pc[u] # "searching"
    /\ \A u \in Threads : pc[u] = "searching" => writer = 0

\* C3 witness: a search has been called and waits while an insertion is in
\* the middle of its sequence.
C3_Witness ==
    \E t \in Inserters : \E u \in Searchers :
        pc[t] \in { "trim", "commit" } /\ pc[u] = "search"

\* C4: whenever no insert call is in progress, len() is the number of
\* insert calls that returned Ok, and is_empty() holds exactly when that
\* number is zero.
C4_LenCountsOkInserts ==
    ~InsertInProgress => /\ len = OkTotal
                         /\ (len = 0) <=> (OkTotal = 0)

\* C5: bootstrap race: no call ever returns the 'graph already has an entry
\* point' error; and when every inserter found the index empty at its first
\* check and the oracle never failed, all calls return Ok, exactly one went
\* through insert_first, the others fell back to the general path, and all
\* ids are attached.
C5_BootstrapRace ==
    /\ \A t \in Inserters : result[t].value # InvalidHasEntry
    /\ ( \A t \in Inserters : /\ pc[t] = "done"
                              /\ result[t].fault = "none"
                              /\ result[t].path \in { "first", "fallback" } )
        => /\ \A t \in Inserters : result[t].value = Ok
           /\ Cardinality({ t \in Inserters : result[t].path = "first" }) = 1
           /\ \A t \in Inserters : Attached(nodes, ctx[t].node)

\* C5 witness: all inserters raced on the empty index and returned, one of
\* them through the fallback.
C5_Witness ==
    /\ \A t \in Inserters : /\ pc[t] = "done"
                            /\ result[t].fault = "none"
                            /\ result[t].path \in { "first", "fallback" }
    /\ \E t \in Inserters : result[t].path = "fallback"

\* ------------------------------------------------------------------------
\* Properties of the caller that builds and then queries (SpecSearch)
\* ------------------------------------------------------------------------
Searched == found # NoFound

\* Every list of every node attached after a step is what it was before it.
ListsKept(before, after) ==
    \A i \in AttachedIds(after) : \A L \in Layers :
        ListOf(after, i, L) = ListOf(before, i, L)

\* The oracle answered a requested distance with a non-finite value in a
\* call with this outcome.
NonFiniteAnswered(outcome) == outcome = "NonFinite" \/ outcome \in MixedOutcomes

\* The error of the candidate that failed after the non-finite answer.
FailedAfterNonFinite(outcome) ==
    IF outcome = "NonFiniteThenOutOfBounds" THEN DataSourceError("OutOfBounds")
    ELSE DataSourceError("Operation")

\* The error a call with this outcome is to produce: the DataSource error
\* of a candidate that failed, otherwise InvalidParameters for a non-finite
\* answer.
ErrorOf(outcome) ==
    IF outcome \in MixedOutcomes THEN FailedAfterNonFinite(outcome)
    ELSE IF outcome = "NonFinite" THEN InvalidNonFinite
    ELSE DataSourceError(outcome)

\* An insert has just run its trim jobs in parallel and the batch of one
\* of them was answered with a non-finite value.
NonFiniteInTrimJob ==
    /\ sched' # sched
    /\ \E j \in sched'.failing : NonFiniteAnswered(sched'.kinds[j])

\* C12 as claimed: an insert or a search one of whose oracle calls
\* (self-distance, planning scan, trim batch; entry distance, descent batch,
\* layer expansion) is answered with a non-finite value returns
\* InvalidParameters.
C12_NonFiniteAlwaysInvalid ==
    [][ /\ NonFiniteAnswered(found'.outcome) => found'.err = InvalidNonFinite
        /\ NonFiniteAnswered(last'.outcome) => last'.result = InvalidNonFinite
        /\ NonFiniteInTrimJob => last'.result = InvalidNonFinite ]_vars

\* C12 amended: an insert or a search one of whose oracle calls is answered
\* with a non-finite value fails.  It returns InvalidParameters, unless the
\* oracle also fails with an error in the same operation: on a later
\* candidate of the same batch, and then the operation returns that
\* DataSource error, or in another of the insert's parallel trim jobs, and
\* then it returns the error of one of the failing jobs.  Either way the
\* search returns no neighbour and the insert changes no neighbour list and
\* not the entry point.
C12_FiniteDistances ==
    [][ /\ NonFiniteAnswered(found'.outcome)
            => /\ found'.outcome \in MixedOutcomes => found'.asked >= 2
               /\ found'.err = ErrorOf(found'.outcome)
               /\ found'.neighbours = << >>
        /\ NonFiniteAnswered(last'.outcome)
            => /\ last'.outcome \in MixedOutcomes => last'.asked >= 2
               /\ last'.result = ErrorOf(last'.outcome)
               /\ ListsKept(nodes, nodes')
               /\ entry' = entry
        /\ NonFiniteInTrimJob
            => /\ last'.result \in { ErrorOf(sched'.kinds[j]) : j \in sched'.failing }
               /\ (\A j \in sched'.failing : sched'.kinds[j] = "NonFinite")
                     => last'.result = InvalidNonFinite
               /\ ListsKept(nodes, nodes')
               /\ entry' = entry ]_vars

\* C12 witness: the build ended with an insert whose batch held a
\* non-finite answer and then a failing candidate, and the search met a
\* non-finite value in a batch of the expansion of layer 0 (its third call
\* or later).
C12_Witness ==
    /\ last.outcome \in MixedOutcomes
    /\ last.asked >= 2
    /\ last.result = FailedAfterNonFinite(last.outcome)
    /\ found.outcome = "NonFinite"
    /\ found.asked >= 2
    /\ found.calls >= 3
    /\ found.err = InvalidNonFinite

\* Other cases of C12: an insert that returned InvalidParameters for a
\* non-finite answer; a search whose layer expansion held a non-finite
\* answer and then a failing candidate; an insert with two trim jobs, one
\* answered with a non-finite value and one with an error, that returned
\* the DataSource error, and one that returned InvalidParameters.
NonFiniteInsertRejected ==
    /\ last.outcome = "NonFinite"
    /\ last.result = InvalidNonFinite

NonFiniteThenErrorInSearch ==
    /\ found.outcome \in MixedOutcomes
    /\ found.asked >= 2
    /\ found.calls >= 3
    /\ found.err = FailedAfterNonFinite(found.outcome)

NonFiniteBesideFailedJob ==
    /\ \E i, j \in sched.failing :
          /\ sched.kinds[i] = "NonFinite"
          /\ sched.kinds[j] \in { "OutOfBounds", "Operation" }
          /\ last.result = DataSourceError(sched.kinds[j])

NonFiniteBeforeFailedJob ==
    /\ \E i, j \in sched.failing :
          /\ sched.kinds[i] = "NonFinite"
          /\ sched.kinds[j] \in { "OutOfBounds", "Operation" }
          /\ last.result = InvalidNonFinite

\* C13 as claimed: an insert or a search one of whose oracle calls returns
\* the error e (OutOfBounds or Operation) returns the DataSource error
\* wrapping e, also when the call is one of several trim batches.
C13_ErrorsAlwaysPassThrough ==
    [][ /\ found'.outcome \in { "OutOfBounds", "Operation" }
            => found'.err = DataSourceError(found'.outcome)
        /\ last'.outcome \in { "OutOfBounds", "Operation" }
            => last'.result = DataSourceError(last'.outcome)
        /\ sched' # sched
            => \A j \in sched'.failing :
                  sched'.kinds[j] \in { "OutOfBounds", "Operation" }
                      => last'.result = DataSourceError(sched'.kinds[j]) ]_vars

\* C13 amended: oracle errors pass through: an insert or a search one of
\* whose oracle calls returns the error e (OutOfBounds or Operation)
\* returns the DataSource error wrapping e, unless another of the insert's
\* parallel trim jobs fails as well: then the insert returns the error of
\* one of the failing jobs.
C13_OracleErrorsPassThrough ==
    [][ /\ found'.outcome \in { "OutOfBounds", "Operation" }
            => found'.err = DataSourceError(found'.outcome)
        /\ last'.outcome \in { "OutOfBounds", "Operation" }
            => last'.result = DataSourceError(last'.outcome)
        /\ sched' # sched
            => \A j \in sched'.failing :
                  sched'.kinds[j] \in { "OutOfBounds", "Operation" }
                      => /\ last'.result \in
                              { ErrorOf(sched'.kinds[i]) : i \in sched'.failing }
                         /\ sched'.failing = { j }
                              => last'.result = DataSourceError(sched'.kinds[j]) ]_vars

\* C13 witness: an oracle error came back from an insert (in the planning
\* scan) and from a search (after its first call).
C13_Witness ==
    /\ last.fault = "plan"
    /\ last.result = DataSourceError("OutOfBounds")
    /\ found.outcome = "Operation"
    /\ found.calls >= 2
    /\ found.err = DataSourceError("Operation")

\* Other cases of C13: an insert with two trim jobs that failed with
\* different errors, and an insert whose only failing trim job came after
\* the result of another.
TwoJobsFailedDifferently ==
    \E i, j \in sched.failing :
        /\ sched.kinds[i] = "OutOfBounds"
        /\ sched.kinds[j] = "Operation"
        /\ last.result = DataSourceError("OutOfBounds")

OneJobFailedBehindAResult ==
    /\ Len(sched.order) >= 2
    /\ sched.failing = { sched.order[2] }
    /\ sched.kinds[sched.order[2]] = "Operation"
    /\ last.result = DataSourceError("Operation")

\* C14: a search on an index without an entry point returns Ok with an
\* empty list and makes no oracle call, whatever the query, k and oracle
\* (also one whose first call would fail).
C14_EmptySearch ==
    (Searched /\ IsNone(entry))
        => /\ found.err = Ok
           /\ found.neighbours = << >>
           /\ found.calls = 0

\* C14 witness: the empty index was searched with k > 0 and an oracle that
\* fails on its first call.
C14_Witness ==
    /\ Searched
    /\ IsNone(entry)
    /\ found.k > 0
    /\ found.fault = 1

\* C16: a successful search returns its neighbours in non-decreasing order
\* of distance, each distance being the oracle's value for (query, id).
C16_SortedResults ==
    (Searched /\ found.err = Ok)
        => /\ \A i \in 1 .. Len(found.neighbours) :
                found.neighbours[i].distance =
                    Distance(found.query, found.neighbours[i].id)
           /\ \A i, j \in 1 .. Len(found.neighbours) :
                i < j => found.neighbours[i].distance <= found.neighbours[j].distance

\* C16 witness: two neighbours at different distances were returned by a
\* search that expanded layer 0.
C16_Witness ==
    /\ Searched
    /\ found.err = Ok
    /\ found.calls >= 3
    /\ Len(found.neighbours) >= 2
    /\ found.neighbours[1].distance < found.neighbours[2].distance

\* The ids reachable from `from` through layer-0 neighbour lists.
RECURSIVE ReachableFrom(_, _)
ReachableFrom(table, set) ==
    With(set \cup UNION { Range(ListOf(table, i, 0)) : i \in set }, LAMBDA next :
         IF next = set THEN set ELSE ReachableFrom(table, next))

\* C17: a successful search of a non-empty index returns exactly
\* min(k, ef_construction, R) neighbours, R being the number of nodes
\* reachable through layer-0 lists from the node the descent ended at.
C17_ResultSize ==
    (Searched /\ found.err = Ok /\ IsSome(entry))
        => /\ IsSome(found.base)
           /\ Len(found.neighbours) =
                Min(found.k, Min(params.ef_construction,
                                 Cardinality(ReachableFrom(nodes, { Unwrap(found.base) }))))

\* C17 witness: k and the number of reachable nodes both exceed
\* ef_construction, and ef_construction neighbours came back.
C17_Witness ==
    /\ Searched
    /\ found.err = Ok
    /\ IsSome(found.base)
    /\ found.k > params.ef_construction
    /\ Cardinality(ReachableFrom(nodes, { Unwrap(found.base) })) > params.ef_construction
    /\ Len(found.neighbours) = params.ef_construction

\* C33: search never returns a node whose insertion failed: every id in a
\* search result is the id of a node whose insert call returned Ok.
C33_SearchReturnsInserted ==
    (Searched /\ found.err = Ok)
        => \A i \in 1 .. Len(found.neighbours) : found.neighbours[i].id \in OkIds

\* ------------------------------------------------------------------------
\* Properties of the line scenario (SpecLine)
\* ------------------------------------------------------------------------
\* C18: in the line scenario, whatever levels were drawn, search(0, 3)
\* succeeds; with ef_construction = 2 it returns node 0 first at distance 0
\* and node 1 second, with ef_construction = 1 exactly one neighbour, node 0.
C18_LineScenario ==
    Searched =>
        /\ found.err = Ok
        /\ Len(found.neighbours) >= 1
        /\ found.neighbours[1] = NeighbourOf(0, 0)
        /\ IF params.ef_construction = LineEfNarrow
           THEN Len(found.neighbours) = 1
           ELSE Len(found.neighbours) >= 2 /\ found.neighbours[2].id = 1

\* C18 witness: the search started from an entry point other than node 0
\* above layer 0 and returned nodes 0 and 1.
C18_Witness ==
    /\ Searched
    /\ params.ef_construction = LineEf
    /\ Unwrap(entry).node # 0
    /\ Unwrap(entry).level > 0
    /\ Len(found.neighbours) = 2
    /\ found.neighbours[2].id = 1

\* ------------------------------------------------------------------------
\* Properties of the line built in any order (SpecOrders)
\* ------------------------------------------------------------------------
\* X dropped the reverse edge to the node N on a full list of ids none of
\* which is farther from X than N.
FullOfNearer(X, N, L) ==
    /\ Len(ListOf(nodes, X, L)) = params.max_connections
    /\ \A y \in Range(ListOf(nodes, X, L)) : Distance(X, y) <= Distance(X, N)

\* C19: reverse edges are attempted, not guaranteed: after a successful
\* insertion of N, every X in N's list at a layer L either lists N at L or
\* holds exactly max_connections ids at L, none farther from X than N.
C19_ReverseEdges ==
    last.result = Ok =>
        \A L \in 0 .. params.max_level :
            \A X \in Range(ListOf(nodes, last.node, L)) :
                \/ Contains(ListOf(nodes, X, L), last.node)
                \/ FullOfNearer(X, last.node, L)

\* C19 witness: the node just inserted has one neighbour that took the
\* reverse edge and one whose full list kept it out.
C19_Witness ==
    /\ last.result = Ok
    /\ \E X \in Range(ListOf(nodes, last.node, 0)) :
            Contains(ListOf(nodes, X, 0), last.node)
    /\ \E X \in Range(ListOf(nodes, last.node, 0)) :
            /\ ~Contains(ListOf(nodes, X, 0), last.node)
            /\ FullOfNearer(X, last.node, 0)

\* The insert step just taken returned Ok for a node inserted through
\* insert_node (the graph already had an entry point).
InsertedOk == last' # last /\ last'.result = Ok /\ IsSome(entry)

\* A trim job is scheduled for (X, L) by the insertion of N: X is one of
\* N's committed neighbours at L and its list with N appended is over budget.
Trimmed(X, N, L) ==
    /\ Contains(ListOf(nodes', N, L), X)
    /\ Len(ListOf(nodes, X, L)) + 1 > params.max_connections

\* The candidate list with x moved to the front, the others keeping their
\* order.
MoveToFront(candidates, x) ==
    << x >> \o SelectSeq(candidates, LAMBDA c : c # x)

\* C21 as stated: the committed list of a trimmed (X, L) is X's candidate
\* list with the new node moved to the front, stably sorted ascending by
\* distance from X, cut to max_connections.
C21_TrimSelection ==
    [][ InsertedOk =>
          \A L \in 0 .. params.max_level : \A X \in AttachedIds(nodes) :
              Trimmed(X, last'.node, L) =>
                  ListOf(nodes', X, L) =
                      Take(SortByDistance(
                               MoveToFront(Append(ListOf(nodes, X, L), last'.node),
                                           last'.node), X),
                           params.max_connections) ]_vars

\* What C21 concludes from the procedure: the committed list is sorted
\* ascending from X, holds max_connections candidates none farther from X
\* than a dropped one, and the new node is dropped only behind strictly
\* nearer ones.
TrimKeepsNearest ==
    [][ InsertedOk =>
          \A L \in 0 .. params.max_level : \A X \in AttachedIds(nodes) :
              Trimmed(X, last'.node, L) =>
                  With(ListOf(nodes', X, L), LAMBDA kept :
                  With(Range(ListOf(nodes, X, L)) \cup { last'.node }, LAMBDA cands :
                    /\ Len(kept) = params.max_connections
                    /\ Range(kept) \subseteq cands
                    /\ \A i \in 1 .. (Len(kept) - 1) :
                           Distance(X, kept[i]) <= Distance(X, kept[i + 1])
                    /\ \A y \in Range(kept) : \A z \in cands \ Range(kept) :
                           Distance(X, y) <= Distance(X, z)
                    /\ ~Contains(kept, last'.node) =>
                           \A y \in Range(kept) :
                               Distance(X, y) < Distance(X, last'.node))) ]_vars

\* C22: planning is a full scan: after a successful insertion of N at level
\* l, N's list at every layer 0 .. l is one and the same list: the
\* min(n, max_connections) nearest of the n nodes attached before, in
\* ascending order of distance from N, whatever their levels and edges.
C22_PlanIsFullScan ==
    [][ (last' # last /\ last'.result = Ok) =>
          With(last'.node, LAMBDA N :
          With(AttachedIds(nodes) \ { N }, LAMBDA others :
          With(ListOf(nodes', N, 0), LAMBDA list :
            /\ \A L \in 0 .. attachLevel'[N] : ListOf(nodes', N, L) = list
            /\ Len(list) = Min(Cardinality(others), params.max_connections)
            /\ Cardinality(Range(list)) = Len(list)
            /\ Range(list) \subseteq others
            /\ \A i \in 1 .. (Len(list) - 1) :
                   Distance(N, list[i]) <= Distance(N, list[i + 1])
            /\ \A y \in Range(list) : \A z \in others \ Range(list) :
                   Distance(N, y) <= Distance(N, z)))) ]_vars

\* C22 witness: the node just inserted at the top level chose, out of four
\* attached nodes, one that was attached at level 0, and lists it at the
\* top layer.
C22_Witness ==
    /\ last.result = Ok
    /\ attachLevel[last.node] = params.max_level
    /\ Cardinality(AttachedIds(nodes)) = LineNodes
    /\ \E X \in Range(ListOf(nodes, last.node, params.max_level)) :
            attachLevel[X] = 0

\* C24: a successful insertion of N changes, among the nodes attached
\* before, only the lists of the pairs (X, L) with X in N's committed list
\* at L: such a list becomes the result of the trim job scheduled for
\* (X, L), or the old list with N appended when none was scheduled; every
\* other list of every other node is as before.
C24_InsertionFrame ==
    [][ InsertedOk =>
          \A X \in AttachedIds(nodes) : \A L \in 0 .. params.max_level :
              ListOf(nodes', X, L) =
                  IF ~Contains(ListOf(nodes', last'.node, L), X)
                  THEN ListOf(nodes, X, L)
                  ELSE IF Trimmed(X, last'.node, L)
                  THEN EvaluateTrim([ node |-> X, level |-> L,
                                      max_connections |-> params.max_connections,
                                      candidates |-> Append(ListOf(nodes, X, L),
                                                            last'.node) ],
                                    last'.node).neighbours
                  ELSE Append(ListOf(nodes, X, L), last'.node) ]_vars

\* C24 witness: the node just inserted above layer 0 has a neighbour that
\* lists it, a neighbour whose trim dropped it, and there is a third node
\* it did not choose.
C24_Witness ==
    /\ last.result = Ok
    /\ attachLevel[last.node] > 0
    /\ \E X \in Range(ListOf(nodes, last.node, 1)) :
            Contains(ListOf(nodes, X, 1), last.node)
    /\ \E X \in Range(ListOf(nodes, last.node, 1)) :
            ~Contains(ListOf(nodes, X, 1), last.node)
    /\ \E Z \in AttachedIds(nodes) \ { last.node } :
            ~Contains(ListOf(nodes, last.node, 0), Z)

\* ------------------------------------------------------------------------
\* Properties of the steps of one caller's inserts (SpecSteps)
\* ------------------------------------------------------------------------
\* Every list of every node attached before the step is as it was.
ListsUntouched ==
    \A X \in AttachedIds(nodes) : \A L \in 0 .. params.max_level :
        ListOf(nodes', X, L) = ListOf(nodes, X, L)

\* C25: only commit_insertion changes the lists of nodes already attached:
\* the steps running insert_first (with attach_node), plan_insertion,
\* apply_insertion and the trim jobs leave them as they were, and all that
\* apply_insertion does to the live graph is attach the new node with empty
\* lists.
C25_OnlyCommitMutates ==
    [][ \A t \in Threads :
          pc'[t] # pc[t] =>
            /\ pc[t] # "commit" => ListsUntouched
            /\ pc[t] = "apply" =>
                 /\ entry' = entry
                 /\ AttachedIds(nodes') \subseteq AttachedIds(nodes) \cup { ctx[t].node }
                 /\ ~Attached(nodes, ctx[t].node) =>
                        \A L \in 0 .. params.max_level :
                            ListOf(nodes', ctx[t].node, L) = << >> ]_vars

\* C25 witness: apply_insertion and the trim jobs have run and commit is
\* next: the new node is attached with empty lists, a trim result names a
\* list that the live graph does not hold yet.
C25_Witness ==
    /\ pc[Caller] = "commit"
    /\ Attached(nodes, ctx[Caller].node)
    /\ \A L \in 0 .. params.max_level : ListOf(nodes, ctx[Caller].node, L) = << >>
    /\ \E j \in 1 .. Len(local[Caller].trims) :
            local[Caller].trims[j].neighbours #
                ListOf(nodes, local[Caller].trims[j].node, local[Caller].trims[j].level)

\* The trim jobs, trim results and staged updates of (X, L) that thread t
\* holds.
JobsFor(t, X, L) ==
    { j \in 1 .. Len(local[t].trim_jobs) :
        local[t].trim_jobs[j].node = X /\ local[t].trim_jobs[j].level = L }
TrimsFor(t, X, L) ==
    { j \in 1 .. Len(local[t].trims) :
        local[t].trims[j].node = X /\ local[t].trims[j].level = L }
UpdatesFor(t, X, L) ==
    { u \in 1 .. Len(local[t].prepared.updates) :
        /\ local[t].prepared.updates[u].node = X
        /\ local[t].prepared.updates[u].level = L }

\* X is a neighbour that apply_insertion gave the new node at layer L.
Staged(t, X, L) ==
    /\ L + 1 <= Len(local[t].prepared.new_node_neighbours)
    /\ Contains(local[t].prepared.new_node_neighbours[L + 1], X)

\* C26: the trim jobs of one insertion are pairwise independent: at most
\* one job per (node, level); a neighbour X chosen at layer L gets a job
\* exactly when its current list at L with the new node appended exceeds
\* max_connections, and no other pair gets one; at commit every trim result
\* is taken by exactly one staged update, which writes it.
C26_TrimJobsIndependent ==
    [][ \A t \in Threads :
          (pc[t] = "commit" /\ pc'[t] # pc[t]) =>
            \A X \in AttachedIds(nodes) : \A L \in 0 .. params.max_level :
              /\ Cardinality(JobsFor(t, X, L)) <= 1
              /\ JobsFor(t, X, L) # { } <=>
                    /\ Staged(t, X, L)
                    /\ Len(ListOf(nodes, X, L)) + 1 > params.max_connections
              /\ Cardinality(TrimsFor(t, X, L)) = Cardinality(JobsFor(t, X, L))
              /\ \A j \in TrimsFor(t, X, L) :
                    /\ Cardinality(UpdatesFor(t, X, L)) = 1
                    /\ ListOf(nodes', X, L) = local[t].trims[j].neighbours ]_vars

\* C26 witness: an insertion reached commit with two trim jobs, for the two
\* layers of one neighbour, and both results evaluated.
C26_Witness ==
    /\ pc[Caller] = "commit"
    /\ Len(local[Caller].trim_jobs) = 2
    /\ Len(local[Caller].trims) = 2
    /\ \E X \in AttachedIds(nodes) :
            JobsFor(Caller, X, 0) # { } /\ JobsFor(Caller, X, 1) # { }

\* C30: first insertion: on an empty index insert(node) asks the oracle for
\* distance(node, node) before any mutation; when that call fails or answers
\* a non-finite value, insert returns the error and the index stays empty
\* (no entry point, node not attached, len() = 0); when it succeeds the node
\* becomes the entry point at its sampled level with empty neighbour lists.
C30_FirstInsertion ==
    [][ /\ (pc[Caller] = "check" /\ pc'[Caller] # "check" /\ IsNone(entry)) =>
             /\ pc'[Caller] = "validate"
             /\ nodes' = nodes /\ entry' = entry /\ len' = len
        /\ (pc'[Caller] = "bootstrap" /\ pc[Caller] # "bootstrap") =>
             pc[Caller] = "validate"
        /\ (pc[Caller] = "validate" /\ pc'[Caller] # "validate") =>
             /\ IsNone(entry) /\ AttachedIds(nodes) = { } /\ len = 0
             /\ nodes' = nodes /\ entry' = entry /\ len' = len
             /\ \/ pc'[Caller] = "bootstrap"
                \/ /\ pc'[Caller] = "done"
                   /\ result'[Caller].value # Ok
                   /\ result'[Caller].fault = "self"
                   /\ \E kind \in OracleFaults :
                        result'[Caller].value =
                            IF kind = "NonFinite" THEN InvalidNonFinite
                            ELSE DataSourceError(kind)
        /\ (pc[Caller] = "bootstrap" /\ pc'[Caller] # "bootstrap") =>
             /\ pc'[Caller] = "store"
             /\ entry' = Some([ node |-> ctx[Caller].node,
                                level |-> ctx[Caller].level ])
             /\ AttachedIds(nodes') = { ctx[Caller].node }
             /\ Len(Unwrap(GraphNode(nodes', ctx[Caller].node)))
                    = ctx[Caller].level + 1
             /\ \A L \in 0 .. ctx[Caller].level :
                    ListOf(nodes', ctx[Caller].node, L) = << >>
             /\ len' = len
        /\ (pc[Caller] = "store" /\ pc'[Caller] # "store") =>
             /\ pc'[Caller] = "done"
             /\ result'[Caller].value = Ok
             /\ len' = 1
             /\ nodes' = nodes /\ entry' = entry ]_vars

\* The first insertion succeeded: the node is the entry point on an upper
\* layer and len() is 1.
FirstInserted ==
    /\ pc[Caller] = "done"
    /\ result[Caller].path = "first"
    /\ result[Caller].value = Ok
    /\ entry = Some(ctx[Caller])
    /\ ctx[Caller].level > 0
    /\ len = 1

\* C30 witness: the sanity check answered a non-finite value on an empty
\* index; insert returned the error and the index is still empty.
C30_Witness ==
    /\ pc[Caller] = "done"
    /\ result[Caller].fault = "self"
    /\ result[Caller].value = InvalidNonFinite
    /\ IsNone(entry) /\ AttachedIds(nodes) = { } /\ len = 0

\* The errors a search of the present graph can return, whichever of its
\* oracle calls fails, if any.
SearchErrors ==
    { Search(nodes, entry, query, MaxK, params.ef_construction,
             [ call |-> call, kind |-> kind ]).err :
        query \in Ids, call \in 0 .. MaxFaultCall, kind \in OracleFaults }

AllAttached(ids) == Range(ids) \subseteq AttachedIds(nodes)

\* C34: GraphInvariantViolation is unreachable through insert and search:
\* no call returned it and a search holding the read lock cannot return it,
\* because every id in a neighbour list, in the entry point, in a plan, in
\* a staged update, in a trim job or in a trim result is the id of an
\* attached node.
C34_NoInvariantViolation ==
    /\ last.result # GraphInvariantViolation
    /\ found.err # GraphInvariantViolation
    /\ \A t \in Threads : result[t].value # GraphInvariantViolation
    /\ \A t \in Threads :
            pc[t] = "searching" => GraphInvariantViolation \notin SearchErrors
    /\ IsSome(entry) => Attached(nodes, Unwrap(entry).node)
    /\ \A i \in AttachedIds(nodes) : \A L \in 0 .. params.max_level :
            AllAttached(ListOf(nodes, i, L))
    /\ \A t \in Threads :
        /\ \A n \in 1 .. Len(local[t].layers) :
                AllAttached(local[t].layers[n].neighbours)
        /\ pc[t] \in { "trim", "commit" } =>
                /\ Attached(nodes, local[t].prepared.node.node)
                /\ \A n \in 1 .. Len(local[t].prepared.new_node_neighbours) :
                        AllAttached(local[t].prepared.new_node_neighbours[n])
        /\ \A n \in 1 .. Len(local[t].prepared.updates) :
                /\ Attached(nodes, local[t].prepared.updates[n].node)
                /\ AllAttached(local[t].prepared.updates[n].candidates)
        /\ \A n \in 1 .. Len(local[t].trim_jobs) :
                /\ Attached(nodes, local[t].trim_jobs[n].node)
                /\ AllAttached(local[t].trim_jobs[n].candidates)
        /\ \A n \in 1 .. Len(local[t].trims) :
                /\ Attached(nodes, local[t].trims[n].node)
                /\ AllAttached(local[t].trims[n].neighbours)

\* C34 witness: an insertion is about to commit a staged update while a
\* search has been called and waits for the graph.
C34_Witness ==
    \E t \in Inserters : \E u \in Searchers :
        /\ pc[t] = "commit"
        /\ local[t].prepared.updates # << >>
        /\ pc[u] = "search"

\* The same with a search that holds the graph after an insertion.
SearchingAfterInsert ==
    \E u \in Searchers : pc[u] = "searching" /\ Cardinality(AttachedIds(nodes)) >= 2

\* ------------------------------------------------------------------------
\* Properties of the caller that goes on after failed inserts (SpecFaulty)
\* ------------------------------------------------------------------------
\* C37: out-degree never shrinks: over any sequence of insert calls,
\* successful or failed, no list of an attached node gets shorter; and once
\* two nodes have been inserted successfully every successfully inserted
\* node has a non-empty layer-0 list.
C37_OutDegreeNeverShrinks ==
    /\ [][ \A i \in AttachedIds(nodes) : \A L \in 0 .. params.max_level :
                Len(ListOf(nodes', i, L)) >= Len(ListOf(nodes, i, L)) ]_vars
    /\ [](Cardinality(OkIds) >= 2 =>
                \A i \in OkIds : ListOf(nodes, i, 0) # << >>)

\* C37 witness: an insert failed, later inserts succeeded and trimmed full
\* lists, and every successfully inserted node has neighbours.
C37_Witness ==
    /\ \E i \in AttachedIds(nodes) : i \notin OkIds
    /\ last.result = Ok
    /\ Cardinality(OkIds) >= params.max_connections + 2
    /\ \A i \in OkIds : Len(ListOf(nodes, i, 0)) = params.max_connections

\* ------------------------------------------------------------------------
\* Properties of the two locks (SpecLocks)
\* ------------------------------------------------------------------------
HoldsGraphLock(t) == writer = t \/ t \in readers
WaitsForGraphLock(t) == pc[t] \in { "check", "bootstrap", "general", "search" }
WaitsForRng(t) == t \in Inserters /\ pc[t] = "idle"

\* C32: lock discipline: a thread holds the RNG mutex only inside
\* sample_level, where it neither holds nor waits for the graph lock, and a
\* thread that holds the graph lock neither holds nor waits for the RNG
\* mutex; while a call is unfinished some thread can take a step.
C32_LockDiscipline ==
    /\ \A t \in Threads :
        /\ rng = t => pc[t] = "sample" /\ ~HoldsGraphLock(t) /\ ~WaitsForGraphLock(t)
        /\ HoldsGraphLock(t) => rng # t /\ ~WaitsForRng(t) /\ pc[t] # "sample"
    /\ rng \in { 0 } \cup Inserters
    /\ (\E t \in Threads : pc[t] # "done") => ENABLED NextLocks

\* C32 witness: a searcher holds the graph lock for reading, an inserter
\* that has sampled its level waits for the write lock, and the other
\* inserter holds the RNG mutex.
C32_Witness ==
    /\ \E t \in Searchers : t \in readers
    /\ \E t \in Inserters : pc[t] = "bootstrap"
    /\ rng \in Inserters
    /\ pc[rng] = "sample"

\* The InvalidParameters errors that do not come from the oracle.
StructuralErrors == { InvalidLevel, InvalidHasEntry, InvalidNoEntry }

\* C36: through insert, InvalidParameters arises only from a non-finite
\* oracle distance: the sampled level lies in 0 ..= max_level, insert_first
\* never finds an entry point, and plan_insertion always finds one, in every
\* interleaving of the inserts.
C36_InvalidOnlyFromOracle ==
    \A t \in Inserters :
        /\ pc[t] \notin { "idle", "sample" } => ctx[t].level \in 0 .. params.max_level
        /\ result[t].value \notin StructuralErrors
        /\ result[t].value = InvalidNonFinite =>
                result[t].fault \in { "self", "plan", "trim" }
        /\ pc[t] \in { "general", "apply", "trim", "commit" } => IsSome(entry)
        /\ result[t].path = "first" => IsSome(entry)

\* C36 witness: one insert lost the race for the first insertion and went
\* on to plan against the winner's entry point, and the other returned
\* InvalidParameters for a non-finite distance.
C36_Witness ==
    \E t, u \in Inserters :
        /\ result[t].path = "fallback"
        /\ pc[t] = "done"
        /\ result[u].value = InvalidNonFinite

\* ------------------------------------------------------------------------
\* Properties of attach_node (SpecAttach)
\* ------------------------------------------------------------------------
AttachCalled == pc[Caller] = "idle" /\ pc'[Caller] = "done"

\* C31: attach_node(node, level): a level above max_level gives
\* InvalidParameters and changes nothing, occupied slot or not; an occupied
\* slot gives DuplicateNode and the stored lists are unchanged; otherwise
\* the slot holds level + 1 empty lists, the table has at least node + 1
\* slots and no other slot is altered.
C31_AttachNode ==
    [][ AttachCalled =>
          LET node == ctx'[Caller].node
              level == ctx'[Caller].level
              err == result'[Caller].value
          IN  /\ entry' = entry
              /\ IF level > params.max_level
                 THEN err = InvalidLevel /\ nodes' = nodes
                 ELSE IF Attached(nodes, node)
                 THEN /\ err = DuplicateNode
                      /\ Len(nodes') = Len(nodes)
                      /\ \A i \in 0 .. (Len(nodes) - 1) :
                            GraphNode(nodes', i) = GraphNode(nodes, i)
                 ELSE /\ err = Ok
                      /\ Len(nodes') >= node + 1
                      /\ Len(nodes') >= Len(nodes)
                      /\ IsSome(GraphNode(nodes', node))
                      /\ Len(Unwrap(GraphNode(nodes', node))) = level + 1
                      /\ \A L \in 0 .. level : ListOf(nodes', node, L) = << >>
                      /\ \A i \in 0 .. (Len(nodes') - 1) :
                            i # node => GraphNode(nodes', i) = GraphNode(nodes, i) ]_vars

\* C31 witness: the level check fired on an occupied slot of a node that
\* has neighbours.
C31_Witness ==
    /\ pc[Caller] = "done"
    /\ result[Caller].value = InvalidLevel
    /\ ctx[Caller].level > params.max_level
    /\ Attached(nodes, ctx[Caller].node)
    /\ ListOf(nodes, ctx[Caller].node, 0) # << >>

AttachGrew ==
    /\ pc[Caller] = "done"
    /\ result[Caller].value = Ok
    /\ Len(nodes) = ctx[Caller].node + 1
    /\ Len(nodes) > NumIds

AttachDuplicate ==
    /\ pc[Caller] = "done"
    /\ result[Caller].value = DuplicateNode
    /\ ListOf(nodes, ctx[Caller].node, 0) # << >>

\* ------------------------------------------------------------------------
\* Properties of the trim schedules (SpecTrims)
\* ------------------------------------------------------------------------
\* The insert that has just run under a schedule, run under `order` instead.
Rescheduled(order) ==
    InsertNodeScheduled(nodes, entry, params,
                        [ node |-> sched'.node, level |-> sched'.level ],
                        order, sched'.failing, sched'.kinds)

\* C35: trim scheduling independence: for a fixed graph, node, level and
\* deterministic oracle, the graph after insert and whether insert returns
\* Ok or Err are the same for every order in which the trim jobs are
\* evaluated.
C35_TrimScheduleIndependent ==
    [][ (IsSome(entry) /\ last' # last) =>
            \A order \in Schedules(Len(sched'.order)) :
                /\ Rescheduled(order).nodes = nodes'
                /\ Rescheduled(order).entry = entry'
                /\ (Rescheduled(order).err = Ok) <=> (last'.result = Ok) ]_vars

\* Under any schedule an insert whose oracle answers every call gives what
\* insert_node gives with the jobs evaluated in their own order.
ScheduledAgrees ==
    [][ (IsSome(entry) /\ last' # last /\ sched'.failing = { }) =>
            With(InsertNode(nodes, entry, params,
                            [ node |-> sched'.node, level |-> sched'.level ], NoFault),
                 LAMBDA r : r.nodes = nodes' /\ r.entry = entry'
                            /\ r.err = last'.result) ]_vars

\* C35 witness: an insert with two trim jobs evaluated them in the reverse
\* of their order and was committed.
C35_Witness ==
    /\ Len(sched.order) >= 2
    /\ sched.order[1] > sched.order[2]
    /\ sched.failing = { }
    /\ last.node = sched.node
    /\ last.result = Ok

\* The same insert with a job whose batch fails when it runs second.
FailedBehindAResult ==
    /\ Len(sched.order) >= 2
    /\ sched.order[2] \in sched.failing
    /\ sched.order[1] \notin sched.failing
    /\ last.fault = "trim"

\* ------------------------------------------------------------------------
\* Properties of the search followed step by step (SpecWalk, SpecWalkFair)
\* ------------------------------------------------------------------------
\* The step-by-step search returns what search::search returns.
WalkAgrees ==
    run.phase = "done" =>
        With(Search(nodes, entry, run.query, run.k, params.ef_construction,
                    NoSearchFault),
             LAMBDA r : r.err = run.err /\ r.neighbours = run.neighbours)

\* Ids waiting in a frontier or held in a result set.
IdsOf(items) == { items[i].id : i \in 1 .. Len(items) }

\* The measure behind termination.  A pass of the descent lowers the layer
\* or, on the same layer, strictly decreases the current distance.  A pass
\* of the expansion takes one item off the frontier and enqueues only ids
\* it had not visited before, so no id is enqueued twice.
LoopsDecrease ==
    [][ /\ (run.phase = "descend" /\ run'.phase = "descend") =>
             \/ run'.d.level < run.d.level
             \/ /\ run'.d.level = run.d.level
                /\ run'.d.current_dist < run.d.current_dist
        /\ (run.phase = "expand" /\ run'.phase = "expand") =>
             /\ run.st.visited \subseteq run'.st.visited
             /\ IdsOf(run'.st.candidates) \subseteq
                    IdsOf(run.st.candidates) \cup (run'.st.visited \ run.st.visited)
             /\ IdsOf(run'.st.candidates) \subseteq run'.st.visited
             /\ Cardinality(IdsOf(run'.st.candidates)) = Len(run'.st.candidates)
             /\ \/ run'.st.visited # run.st.visited
                \/ Len(run'.st.candidates) < Len(run.st.candidates) ]_vars

\* C27: search terminates: a search call that has started returns, the
\* descent because each pass strictly decreases the current distance or
\* lowers the layer, the expansion because it enqueues each node at most
\* once.
C27_SearchTerminates ==
    /\ (run.phase # "none") ~> (run.phase = "done")
    /\ LoopsDecrease

\* C27 witness: a search has returned after a descent that moved away from
\* the entry point and an expansion that found a second node.
C27_Witness ==
    /\ run.phase = "done"
    /\ IsSome(entry)
    /\ run.d.current # Unwrap(entry).node
    /\ Len(run.neighbours) >= 2

\* Neighbours of the descent's current node at its current layer that are
\* strictly closer to the query than the current node.
CloserNeighbours(d, query) ==
    { n \in Range(ListOf(nodes, d.current, d.level)) :
        Distance(query, n) < Distance(query, d.current) }

\* C28: greedy descent: the current node changes only to a neighbour at the
\* current layer that is strictly closer to the query, the layer never
\* increases, a layer above 0 is left only when no neighbour of the current
\* node at that layer is strictly closer, and the node handed to the
\* layer-0 expansion is not farther from the query than the entry point.
C28_GreedyDescent ==
    [][ /\ (run.phase = "none" /\ run'.phase = "descend") =>
             /\ run'.d.current = Unwrap(entry).node
             /\ run'.d.level = Unwrap(entry).level
        /\ (run.phase = "descend" /\ run'.phase = "descend") =>
             /\ run'.d.level <= run.d.level
             /\ run'.d.current # run.d.current =>
                    /\ run'.d.current \in CloserNeighbours(run.d, run.query)
                    /\ run'.d.level = run.d.level
             /\ run'.d.level < run.d.level =>
                    /\ run.d.level > 0
                    /\ run'.d.level = run.d.level - 1
                    /\ run'.d.current = run.d.current
                    /\ CloserNeighbours(run.d, run.query) = { }
        /\ (run.phase = "descend" /\ run'.phase = "expand") =>
             /\ run.d.level = 0
             /\ run'.st.visited = { run.d.current }
             /\ Distance(run.query, run.d.current)
                    <= Distance(run.query, Unwrap(entry).node) ]_vars

\* C28 witness: the descent moved from the entry point to a strictly closer
\* node on an upper layer, came down to layer 0, and handed that node to
\* the expansion.
C28_Witness ==
    /\ run.phase = "expand"
    /\ IsSome(entry)
    /\ Unwrap(entry).level > 0
    /\ run.d.current # Unwrap(entry).node
    /\ run.st.visited = { run.d.current }
    /\ Distance(run.query, run.d.current)
            < Distance(run.query, Unwrap(entry).node)

\* Distances of the items of a frontier or of a result set.
DistancesOf(items) == { items[i].distance : i \in 1 .. Len(items) }

\* The frontier items a pass of the expansion took off the frontier.
TakenOff(st, next) ==
    { i \in 1 .. Len(st.candidates) :
        st.candidates[i].id \notin IdsOf(next.candidates) }

\* C29: early termination of the layer expansion: search_layer stops with
\* unexplored frontier items only if the result set holds ef entries and the
\* closest frontier item is strictly farther from the query than the worst
\* retained result; otherwise the pass explores the closest frontier item.
\* Between passes the result set holds at least one and at most ef entries.
C29_EarlyTermination ==
    [][ /\ (run.phase = "descend" /\ run'.phase = "expand") =>
             Len(run'.st.best) = 1
        /\ (run.phase = "expand" /\ run'.phase = "expand") =>
             /\ Len(run'.st.best) >= 1
             /\ Len(run'.st.best) <= params.ef_construction
             /\ \E i \in TakenOff(run.st, run'.st) :
                    /\ TakenOff(run.st, run'.st) = { i }
                    /\ \A d \in DistancesOf(run.st.candidates) :
                            run.st.candidates[i].distance <= d
                    /\ ~run'.st.broke =>
                            Range(ListOf(nodes, run.st.candidates[i].id, 0))
                                \subseteq run'.st.visited
             /\ run'.st.broke =>
                    /\ Len(run.st.best) >= params.ef_construction
                    /\ run'.st.best = run.st.best
                    /\ \A c \in DistancesOf(run.st.candidates) :
                       \A b \in DistancesOf(run.st.best) : c > b
        /\ (run.phase = "expand" /\ run'.phase = "done") =>
             \/ run.st.broke
             \/ run.st.candidates = << >> ]_vars

\* C29 witness: the expansion stopped early, leaving the frontier item it
\* had just taken unexplored, with a full result set of more than one entry.
C29_Witness ==
    /\ run.phase = "expand"
    /\ run.st.broke
    /\ Len(run.st.best) = params.ef_construction
    /\ Len(run.st.best) > 1
    /\ run.st.visited # AttachedIds(nodes)

\* ------------------------------------------------------------------------
\* Properties of the default batch_distances (SpecBatch)
\* ------------------------------------------------------------------------
\* Positions of the candidates whose pointwise distance call fails
Failing(b) ==
    { i \in 1 .. Len(b.candidates) : ~SourceDistance(b.source, b.query, b.candidates[i]).ok }

FirstFailing(b) == CHOOSE i \in Failing(b) : \A j \in Failing(b) : i <= j

\* C20: the default batch_distances agrees with pointwise distance: the
\* distances in the order of the list when every call succeeds, otherwise
\* the error of the first candidate, in list order, whose call fails.
C20_BatchMatchesPointwise ==
    batch.called =>
        IF Failing(batch) = { }
        THEN /\ batch.result.ok
             /\ Len(batch.result.values) = Len(batch.candidates)
             /\ \A i \in 1 .. Len(batch.candidates) :
                    batch.result.values[i] =
                        SourceDistance(batch.source, batch.query, batch.candidates[i]).value
        ELSE /\ ~batch.result.ok
             /\ batch.result.error =
                    SourceDistance(batch.source, batch.query,
                                   batch.candidates[FirstFailing(batch)]).error

\* C20 witness: a list whose first candidate answers and whose second and
\* third fail with different errors; the batch returns the second's.
C20_Witness ==
    /\ batch.called
    /\ Len(batch.candidates) = 3
    /\ Failing(batch) = { 2, 3 }
    /\ batch.source[batch.candidates[2]] # batch.source[batch.candidates[3]]
    /\ ~batch.result.ok
    /\ batch.result.error.index = batch.candidates[2]

\* C20 witness of the other branch is the all-success list of three
\* distinct candidates.
BatchAllAnswered ==
    /\ batch.called
    /\ Failing(batch) = { }
    /\ Cardinality(Range(batch.candidates)) = 3
    /\ batch.result.ok

====
